---------------------------- MODULE Spec2Model ----------------------------
(***************************************************************************)
(* A model of the transport and session-coordination layer of             *)
(* retrozoid/control: the cdp promise (src/cdp/broker.go:139-208), the     *)
(* cdp broker (src/cdp/broker.go:1-81), the cdp Transport                  *)
(* (src/cdp/promise.go:145-312) and the control Session (src/session.go).  *)
(*                                                                         *)
(* Each component has its own variables and its own specification; a       *)
(* specification leaves the variables of the other components unchanged.   *)
(* Goroutines are modelled as program counters; every blocking channel or  *)
(* mutex operation is a guard, so a blocked goroutine is a disabled action.*)
(* A Go panic that nothing recovers ends the process: it is recorded in a  *)
(* panic variable and no action of that component is enabled afterwards.   *)
(***************************************************************************)
EXTENDS Integers, Sequences, FiniteSets, TLC

(***************************************************************************)
(* Bounds of the model.                                                    *)
(***************************************************************************)
\* goroutines that race on one promise
MaxThreads == 3
\* calls of broker.Subscribe, broker.Unsubscribe and broker.Publish
MaxSubs == 3
MaxUnsubs == 2
MaxPublish == 3
\* BrokerChannelSize (src/cdp/broker.go:3) is a package variable, 10 unless
\* the program sets it; the model sets it low enough for a mailbox to fill.
BrokerChannelSize == 2
\* goroutines that call Transport.Send, and those of them that call it
\* through Session.Call
MaxCalls == 2
MaxSessionCalls == 1
\* event frames the remote side sends
MaxEvents == 1
MaxWaitEvents == 2
MaxOrderSubs == 2
MaxDecodeEvents == 2

\* the zero value of a promise's value field / a nil error
Nil == "nil"
NoValue == 0

(***************************************************************************)
(* VARIABLES                                                               *)
(***************************************************************************)
VARIABLES
    \* ---- one cdp promise (src/cdp/broker.go:172-178) and its callers ----
    p_once,       \* sync.Once: "new" | "busy" (mutex held, f running) | "done"
    p_fulfilled,  \* the fulfilled channel is closed
    p_value,      \* promise.value
    p_err,        \* promise.err
    p_onClose,    \* number of calls of promise.onClose so far
    p_op,         \* per goroutine: the method it calls on the promise
    p_pc,         \* per goroutine: its position in that method
    p_ctx,        \* per goroutine: the cause of the context passed to Get
    p_ret         \* per goroutine: what Get returned

pvars == <<p_once, p_fulfilled, p_value, p_err, p_onClose, p_op, p_pc, p_ctx, p_ret>>

VARIABLES
    \* ---- the broker (src/cdp/broker.go:10-60) and its mailboxes ----
    b_state,      \* broker.run: "running" | "exited" (returned, l.40)
    b_panic,      \* the panic that ended the process, or Nil
    b_cancel,     \* the cancel channel is closed
    b_sub,        \* buffer of the sub channel
    b_unsub,      \* buffer of the unsub channel
    b_publish,    \* buffer of the publish channel
    b_value,      \* run's registry: mailbox -> session id
    b_made,       \* mailboxes made by Subscribe so far: 1 .. b_made
    b_calls,      \* calls made so far: [unsub, publish]
    m_buf,        \* per mailbox: its buffer
    m_closed      \* per mailbox: it is closed

bvars == <<b_state, b_panic, b_cancel, b_sub, b_unsub, b_publish, b_value,
           b_made, b_calls, m_buf, m_closed>>

VARIABLES
    \* ---- the Transport (src/cdp/promise.go:165-174), its reader goroutine,
    \*      the goroutines that call Send, and the remote side ----
    t_cause,      \* context.Cause(t.context), Nil while the context is live
    t_mutex,      \* t.mutex: Nil, or the goroutine that holds it
    t_seq,        \* t.seq
    t_pending,    \* t.pending: sequence id -> the promise of a call
    t_wire,       \* the request frames written and not answered yet
    t_assigned,   \* the ids Send has assigned, in order of assignment
    r_pc,         \* the reader goroutine's position (Dial, l.197-203)
    r_frame,      \* the response the reader is handling
    r_err,        \* readerr
    c_pc,         \* per call: the caller's position
    c_seq,        \* per call: Send's local seq
    c_promise,    \* per call: the promise Send made
    c_ret         \* per call: what Get, or Session.Call, returned

tvars == <<t_cause, t_mutex, t_seq, t_pending, t_wire, t_assigned,
           r_pc, r_frame, r_err, c_pc, c_seq, c_promise, c_ret>>

VARIABLES
    \* ---- one Session (src/session.go:52-64) and its handle goroutine ----
    s_cause,      \* context.Cause(s.context), Nil while the context is live
    s2_cause,     \* the same of a sibling session on the same Transport
    h_pc,         \* the goroutine of NewSession l.153-158: its position
    h_err,        \* what handle returned
    e_sent,       \* event frames the remote side has sent so far
    h_frames,     \* s.frames (src/session.go:58): frame id -> context id
    h_seen,       \* history: the frame events handle has processed, in order
    f_uid         \* uid of Frame.evaluate (src/runtime.go:147), per goroutine

svars == <<s_cause, s2_cause, h_pc, h_err, e_sent, h_frames, h_seen, f_uid>>

\* an event-wait: MakeFuture (src/main.go:78-99)
VARIABLES
    w_pc,         \* where MakeFuture is: "subscribe", "made"
    w_chan,       \* the mailbox Subscribe returned, NilChannel for nil
    w_sent,       \* event frames of the session the remote side has sent
    w_live,       \* history: the session's context was live when Get was called
    w_late,       \* history: the session's context was done already when
                  \* the goroutine of MakeFuture took the message it settles with
    w_req         \* requestID of CaptureNetworkRequest (src/session.go:368)

VARIABLES
    \* ---- one call of Session.NetworkIdle (src/session.go:405-449) ----
    n_pc,         \* where NetworkIdle is: "subscribe" (l.407), "select"
                  \* (l.421), "defer" (l.414-418), "ret", "panic"
    n_queue,      \* the request ids in queue (l.412)
    n_timer,      \* the timer of l.410 has fired
    n_quiet,      \* time.Since(last) > threshold (l.444)
    n_ret,        \* what NetworkIdle returns, NotReturned before
    n_unsubs,     \* calls of broker.Unsubscribe made through cancel (l.415)
    n_seen        \* history: the decoded events the switch of l.423 processed

nvars == <<n_pc, n_queue, n_timer, n_quiet, n_ret, n_unsubs, n_seen>>
wvars == <<w_pc, w_chan, w_sent, w_live, w_late, w_req, nvars>>

vars == <<pvars, bvars, tvars, svars, wvars>>

\* what the actions of one component leave alone
notP == <<bvars, tvars, svars, wvars>>
notB == <<pvars, tvars, svars, wvars>>
notT == <<pvars, svars, wvars>>

\* the nil channel of Transport.Subscribe's no-op result
\* (src/cdp/promise.go:255)
NilChannel == 0
\* the zero value of requestID (src/session.go:368)
NoRequest == 0

\* NetworkIdle has not reached a return statement
NotReturned == "not returned"

\* before MakeFuture, CaptureNetworkRequest or NetworkIdle is called
WInit ==
    /\ w_pc = "subscribe"
    /\ w_chan = NilChannel
    /\ w_sent = 0
    /\ w_live = FALSE
    /\ w_late = FALSE
    /\ w_req = NoRequest
    /\ n_pc = "subscribe"
    /\ n_queue = {}
    /\ n_timer = FALSE
    /\ n_quiet = FALSE
    /\ n_ret = NotReturned
    /\ n_unsubs = 0
    /\ n_seen = <<>>

(***************************************************************************)
(* The promise: src/cdp/broker.go:139-208                                  *)
(***************************************************************************)
ErrPromiseCanceled == "promise canceled"

PThreads == 1 .. MaxThreads
PValues == {1, 2}
PErrors == {"e1"}
\* context.Cause of a context that is done: its deadline elapsed, or it was
\* canceled
CtxCauses == {"context deadline exceeded", "context canceled"}

NoOp == [kind |-> "none", arg |-> Nil]
NoRet == [via |-> "none", value |-> NoValue, err |-> Nil]

POps ==
    {[kind |-> "Resolve", arg |-> v] : v \in PValues}
        \cup {[kind |-> "Reject", arg |-> e] : e \in PErrors}
        \cup {[kind |-> "Cancel", arg |-> ErrPromiseCanceled],
              [kind |-> "Get", arg |-> ErrPromiseCanceled]}

PInit ==
    /\ p_once = "new"
    /\ p_fulfilled = FALSE
    /\ p_value = NoValue
    /\ p_err = Nil
    /\ p_onClose = 0
    /\ p_op = [t \in PThreads |-> NoOp]
    /\ p_pc = [t \in PThreads |-> "idle"]
    /\ p_ctx = [t \in PThreads |-> Nil]
    /\ p_ret = [t \in PThreads |-> NoRet]

\* A goroutine calls Resolve(v), Reject(e), Cancel() or Get(ctx) on the
\* promise.  Cancel is u.Reject(ErrPromiseCanceled) (l.190-192); Get starts
\* at its select (l.182).
PromiseCall(t, o) ==
    /\ p_pc[t] = "idle"
    /\ p_op' = [p_op EXCEPT ![t] = o]
    /\ p_pc' = [p_pc EXCEPT ![t] = IF o.kind = "Get" THEN "select" ELSE "once"]
    /\ UNCHANGED notP
    /\ UNCHANGED <<p_once, p_fulfilled, p_value, p_err, p_onClose, p_ctx, p_ret>>

\* The context passed to Get becomes done, with its cause.
ContextDone(t, cause) ==
    /\ p_pc[t] = "select"
    /\ p_ctx[t] = Nil
    /\ p_ctx' = [p_ctx EXCEPT ![t] = cause]
    /\ UNCHANGED notP
    /\ UNCHANGED <<p_once, p_fulfilled, p_value, p_err, p_onClose, p_op, p_pc, p_ret>>

\* Get's select without the deferred Cancel of l.181: not the program's Get,
\* but the variant that shows what the defer is needed for
GetSelectNoDefer(t) ==
    /\ p_pc[t] = "select"
    /\ \/ /\ p_ctx[t] # Nil
          /\ p_ret' = [p_ret EXCEPT ![t] =
                          [via |-> "parent", value |-> p_value, err |-> p_ctx[t]]]
       \/ /\ p_fulfilled
          /\ p_ret' = [p_ret EXCEPT ![t] =
                          [via |-> "fulfilled", value |-> p_value, err |-> p_err]]
    /\ p_pc' = [p_pc EXCEPT ![t] = "ret"]
    /\ UNCHANGED notP
    /\ UNCHANGED <<p_once, p_fulfilled, p_value, p_err, p_onClose, p_op, p_ctx>>

\* Get returning what the promise holds without waiting: not the program's
\* Get, but the variant that shows what the select is needed for
GetSelectNoWait(t) ==
    /\ p_pc[t] = "select"
    /\ p_ret' = [p_ret EXCEPT ![t] =
                    [via |-> "fulfilled", value |-> p_value, err |-> p_err]]
    /\ p_pc' = [p_pc EXCEPT ![t] = "once"]
    /\ UNCHANGED notP
    /\ UNCHANGED <<p_once, p_fulfilled, p_value, p_err, p_onClose, p_op, p_ctx>>

\* Get's select (l.182-187): either ready case may be taken; the return
\* values are evaluated here, the deferred Cancel (l.181) runs next.
GetSelect(t) ==
    /\ p_pc[t] = "select"
    /\ \/ /\ p_ctx[t] # Nil
          /\ p_ret' = [p_ret EXCEPT ![t] =
                          [via |-> "parent", value |-> p_value, err |-> p_ctx[t]]]
       \/ /\ p_fulfilled
          /\ p_ret' = [p_ret EXCEPT ![t] =
                          [via |-> "fulfilled", value |-> p_value, err |-> p_err]]
    /\ p_pc' = [p_pc EXCEPT ![t] = "once"]
    /\ UNCHANGED notP
    /\ UNCHANGED <<p_once, p_fulfilled, p_value, p_err, p_onClose, p_op, p_ctx>>

\* running f without the Once: not the program's Resolve and Reject, but the
\* variant that shows what sync.Once is needed for
OnceDoUnguarded(t) ==
    /\ p_pc[t] = "once"
    /\ p_once' = "busy"
    /\ p_pc' = [p_pc EXCEPT ![t] = "set"]
    /\ UNCHANGED notP
    /\ UNCHANGED <<p_fulfilled, p_value, p_err, p_onClose, p_op, p_ctx, p_ret>>

\* u.once.Do(f) (l.195, l.203): a caller that finds the Once done returns
\* at once; a caller that finds it new takes its mutex and runs f; a caller
\* that finds the mutex held waits until f has returned.
OnceDo(t) ==
    /\ p_pc[t] = "once"
    /\ \/ /\ p_once = "done"
          /\ p_pc' = [p_pc EXCEPT ![t] = "ret"]
          /\ UNCHANGED p_once
       \/ /\ p_once = "new"
          /\ p_once' = "busy"
          /\ p_pc' = [p_pc EXCEPT ![t] = "set"]
    /\ UNCHANGED notP
    /\ UNCHANGED <<p_fulfilled, p_value, p_err, p_onClose, p_op, p_ctx, p_ret>>

\* Resolve's closure stores the value (l.196).
Resolve(t) ==
    /\ p_pc[t] = "set"
    /\ p_op[t].kind = "Resolve"
    /\ p_value' = p_op[t].arg
    /\ p_pc' = [p_pc EXCEPT ![t] = "close"]
    /\ UNCHANGED notP
    /\ UNCHANGED <<p_once, p_fulfilled, p_err, p_onClose, p_op, p_ctx, p_ret>>

\* Reject's closure stores the error (l.204); Cancel and the Cancel that Get
\* defers reject with ErrPromiseCanceled.
Reject(t) ==
    /\ p_pc[t] = "set"
    /\ p_op[t].kind \in {"Reject", "Cancel", "Get"}
    /\ p_err' = p_op[t].arg
    /\ p_pc' = [p_pc EXCEPT ![t] = "close"]
    /\ UNCHANGED notP
    /\ UNCHANGED <<p_once, p_fulfilled, p_value, p_onClose, p_op, p_ctx, p_ret>>

\* close(u.fulfilled) (l.197, l.205)
CloseFulfilled(t) ==
    /\ p_pc[t] = "close"
    /\ p_fulfilled' = TRUE
    /\ p_pc' = [p_pc EXCEPT ![t] = "onClose"]
    /\ UNCHANGED notP
    /\ UNCHANGED <<p_once, p_value, p_err, p_onClose, p_op, p_ctx, p_ret>>

\* u.onClose() (l.198, l.206)
OnClose(t) ==
    /\ p_pc[t] = "onClose"
    /\ p_onClose' = p_onClose + 1
    /\ p_pc' = [p_pc EXCEPT ![t] = "unlock"]
    /\ UNCHANGED notP
    /\ UNCHANGED <<p_once, p_fulfilled, p_value, p_err, p_op, p_ctx, p_ret>>

\* f has returned: sync.Once marks itself done and releases its mutex.
OnceDone(t) ==
    /\ p_pc[t] = "unlock"
    /\ p_once' = "done"
    /\ p_pc' = [p_pc EXCEPT ![t] = "ret"]
    /\ UNCHANGED notP
    /\ UNCHANGED <<p_fulfilled, p_value, p_err, p_onClose, p_op, p_ctx, p_ret>>

PNext ==
    \E t \in PThreads :
        \/ \E o \in POps : PromiseCall(t, o)
        \/ \E c \in CtxCauses : ContextDone(t, c)
        \/ GetSelect(t)
        \/ OnceDo(t)
        \/ Resolve(t)
        \/ Reject(t)
        \/ CloseFulfilled(t)
        \/ OnClose(t)
        \/ OnceDone(t)

(***************************************************************************)
(* The broker: src/cdp/broker.go:1-81                                      *)
(***************************************************************************)
\* capacities of the broker's channels (makeBroker, l.20-22)
PublishCap == 10
SubCap == 1
UnsubCap == 1

\* session ids: "" is the browser-level session; messages are published
\* for the browser-level session and for session "A"
SessionIDs == {"", "A", "B"}
MessageSessionIDs == {"", "A"}
Mailboxes == 1 .. MaxSubs

\* the panics of the broker's code, by the line that raises them
PanicRunCloseCancel == "broker.run l.35: close of closed channel"
PanicRunCloseUnsub == "broker.run l.47: close of closed channel"
PanicRunSend == "broker.run l.53: send on closed channel"
PanicSubscribe == "broker.Subscribe l.67: send on closed channel"
PanicPublish == "broker.Publish l.76: send on closed channel"

BInit ==
    /\ b_state = "running"
    /\ b_panic = Nil
    /\ b_cancel = FALSE
    /\ b_sub = <<>>
    /\ b_unsub = <<>>
    /\ b_publish = <<>>
    /\ b_value = <<>>
    /\ b_made = 0
    /\ b_calls = [unsub |-> 0, publish |-> 0]
    /\ m_buf = [ch \in Mailboxes |-> <<>>]
    /\ m_closed = [ch \in Mailboxes |-> FALSE]

\* the process is alive
Alive == b_panic = Nil
\* run has closed b.sub and b.publish (l.37, l.39)
BrokerClosed == b_state = "exited"
\* the registry, as a set of mailboxes
Registered == DOMAIN b_value

\* the delivery rule of run's publish case (l.51)
Matches(message, channelID) ==
    \/ message.SessionID = ""
    \/ channelID = ""
    \/ message.SessionID = channelID

\* a send that puts the message in front of the buffered ones: not a Go
\* channel, but the variant that shows what the first-in-first-out order of
\* the mailbox is needed for
TrySendFront(buf, message) ==
    IF Len(buf) < BrokerChannelSize THEN <<message>> \o buf ELSE buf

\* select { case msgCh <- message: default: } on an open mailbox (l.52-55)
TrySend(buf, message) ==
    IF Len(buf) < BrokerChannelSize THEN Append(buf, message) ELSE buf

\* ---- the callers of the broker ----

\* broker.Subscribe (l.62-69): make a mailbox, send it on b.sub, return it
BrokerSubscribe(sessionID) ==
    /\ Alive
    /\ b_made < MaxSubs
    /\ IF BrokerClosed
         THEN /\ b_panic' = PanicSubscribe
              /\ UNCHANGED <<b_sub, b_made>>
         ELSE /\ Len(b_sub) < SubCap
              /\ b_made' = b_made + 1
              /\ b_sub' = Append(b_sub, [sessionID |-> sessionID, channel |-> b_made + 1])
              /\ UNCHANGED b_panic
    /\ UNCHANGED <<b_state, b_cancel, b_unsub, b_publish, b_value, b_calls,
                   m_buf, m_closed>>
    /\ UNCHANGED notB

\* broker.Unsubscribe (l.71-73): send the mailbox on b.unsub
BrokerUnsubscribe(channel) ==
    /\ Alive
    /\ channel \in 1 .. b_made
    /\ b_calls.unsub < MaxUnsubs
    /\ Len(b_unsub) < UnsubCap
    /\ b_unsub' = Append(b_unsub, channel)
    /\ b_calls' = [b_calls EXCEPT !.unsub = @ + 1]
    /\ UNCHANGED <<b_state, b_panic, b_cancel, b_sub, b_publish, b_value, b_made,
                   m_buf, m_closed>>
    /\ UNCHANGED notB

\* broker.Publish (l.75-77): send the message on b.publish
BrokerPublish(sessionID) ==
    /\ Alive
    /\ b_calls.publish < MaxPublish
    /\ IF BrokerClosed
         THEN /\ b_panic' = PanicPublish
              /\ UNCHANGED <<b_publish, b_calls>>
         ELSE /\ Len(b_publish) < PublishCap
              /\ b_publish' = Append(b_publish,
                     [SessionID |-> sessionID, n |-> b_calls.publish + 1])
              /\ b_calls' = [b_calls EXCEPT !.publish = @ + 1]
              /\ UNCHANGED b_panic
    /\ UNCHANGED <<b_state, b_cancel, b_sub, b_unsub, b_value, b_made,
                   m_buf, m_closed>>
    /\ UNCHANGED notB

\* broker.Cancel (l.79-81): close(b.cancel); its one caller,
\* Transport.gracefullyClose, runs once
BrokerCancel ==
    /\ Alive
    /\ ~b_cancel
    /\ b_cancel' = TRUE
    /\ UNCHANGED <<b_state, b_panic, b_sub, b_unsub, b_publish, b_value, b_made,
                   b_calls, m_buf, m_closed>>
    /\ UNCHANGED notB

\* what a receive from a mailbox yields when nothing is buffered: it
\* blocks while the mailbox is open and reports end-of-stream once it is closed
EndOfStream(channel) == m_buf[channel] = <<>> /\ m_closed[channel]

\* the reader of a mailbox receives the next buffered message
Receive(channel) ==
    /\ Alive
    /\ channel \in 1 .. b_made
    /\ m_buf[channel] # <<>>
    /\ m_buf' = [m_buf EXCEPT ![channel] = Tail(@)]
    /\ UNCHANGED <<b_state, b_panic, b_cancel, b_sub, b_unsub, b_publish, b_value,
                   b_made, b_calls, m_closed>>
    /\ UNCHANGED notB

\* ---- broker.run (l.26-60): one iteration of its select ----

\* case <-b.cancel (l.33-40).  Closing a mailbox that is closed already
\* panics; the mailboxes that the map iteration visited before it are closed.
RunCancel ==
    /\ Alive
    /\ b_state = "running"
    /\ b_cancel
    /\ IF \E ch \in Registered : m_closed[ch]
         THEN /\ \E before \in SUBSET {ch \in Registered : ~m_closed[ch]} :
                     m_closed' = [ch \in Mailboxes |-> m_closed[ch] \/ ch \in before]
              /\ b_panic' = PanicRunCloseCancel
              /\ UNCHANGED b_state
         ELSE /\ m_closed' = [ch \in Mailboxes |-> m_closed[ch] \/ ch \in Registered]
              /\ b_state' = "exited"
              /\ UNCHANGED b_panic
    /\ UNCHANGED <<b_cancel, b_sub, b_unsub, b_publish, b_value, b_made, b_calls,
                   m_buf>>
    /\ UNCHANGED notB

\* case subchan := <-b.sub (l.42-43)
RunSub ==
    /\ Alive
    /\ b_state = "running"
    /\ b_sub # <<>>
    /\ b_value' = [ch \in Registered \cup {Head(b_sub).channel} |->
                      IF ch = Head(b_sub).channel THEN Head(b_sub).sessionID
                                                  ELSE b_value[ch]]
    /\ b_sub' = Tail(b_sub)
    /\ UNCHANGED <<b_state, b_panic, b_cancel, b_unsub, b_publish, b_made, b_calls,
                   m_buf, m_closed>>
    /\ UNCHANGED notB

\* case channel := <-b.unsub (l.45-47): delete, then close
RunUnsub ==
    /\ Alive
    /\ b_state = "running"
    /\ b_unsub # <<>>
    /\ b_unsub' = Tail(b_unsub)
    /\ b_value' = [ch \in Registered \ {Head(b_unsub)} |-> b_value[ch]]
    /\ IF m_closed[Head(b_unsub)]
         THEN /\ b_panic' = PanicRunCloseUnsub
              /\ UNCHANGED m_closed
         ELSE /\ m_closed' = [m_closed EXCEPT ![Head(b_unsub)] = TRUE]
              /\ UNCHANGED b_panic
    /\ UNCHANGED <<b_state, b_cancel, b_sub, b_publish, b_made, b_calls, m_buf>>
    /\ UNCHANGED notB

\* the mailboxes run's fan-out of message sends to
Targets(message) == {ch \in Registered : Matches(message, b_value[ch])}

\* case message := <-b.publish (l.49-57): a non-blocking send to every
\* matching mailbox.  A send on a closed mailbox panics; the mailboxes that
\* the map iteration visited before it have been served.
RunPublish ==
    /\ Alive
    /\ b_state = "running"
    /\ b_publish # <<>>
    /\ b_publish' = Tail(b_publish)
    /\ LET message == Head(b_publish)
       IN  IF \E ch \in Targets(message) : m_closed[ch]
             THEN /\ \E before \in SUBSET {ch \in Targets(message) : ~m_closed[ch]} :
                         m_buf' = [ch \in Mailboxes |->
                                      IF ch \in before THEN TrySend(m_buf[ch], message)
                                                       ELSE m_buf[ch]]
                  /\ b_panic' = PanicRunSend
             ELSE /\ m_buf' = [ch \in Mailboxes |->
                                  IF ch \in Targets(message)
                                     THEN TrySend(m_buf[ch], message)
                                     ELSE m_buf[ch]]
                  /\ UNCHANGED b_panic
    /\ UNCHANGED <<b_state, b_cancel, b_sub, b_unsub, b_value, b_made, b_calls,
                   m_closed>>
    /\ UNCHANGED notB

BNext ==
    \/ \E s \in SessionIDs : BrokerSubscribe(s)
    \/ \E ch \in Mailboxes : BrokerUnsubscribe(ch)
    \/ \E s \in MessageSessionIDs : BrokerPublish(s)
    \/ BrokerCancel
    \/ \E ch \in Mailboxes : Receive(ch)
    \/ RunCancel
    \/ RunSub
    \/ RunUnsub
    \/ RunPublish

\* the broker of an open Transport (Cancel has no caller before
\* gracefullyClose) with MaxOrderSubs subscribers: the reader publishes, run
\* delivers, the subscribers take their messages and unsubscribe
OrderNext ==
    \/ \E s \in SessionIDs : b_made < MaxOrderSubs /\ BrokerSubscribe(s)
    \/ \E ch \in Mailboxes : BrokerUnsubscribe(ch)
    \/ \E s \in MessageSessionIDs : BrokerPublish(s)
    \/ \E ch \in Mailboxes : Receive(ch)
    \/ RunSub
    \/ RunUnsub
    \/ RunPublish

\* the broker with subscribers that have all got their mailbox from
\* Subscribe before the reader publishes the first message, and that do not
\* unsubscribe
RegisterNext ==
    \/ \E s \in SessionIDs : b_made < MaxOrderSubs /\ BrokerSubscribe(s)
    \/ \E s \in MessageSessionIDs : b_made = MaxOrderSubs /\ BrokerPublish(s)
    \/ \E ch \in Mailboxes : Receive(ch)
    \/ RunSub
    \/ RunPublish

(***************************************************************************)
(* The Transport: src/cdp/promise.go:145-312                               *)
(***************************************************************************)
Calls == 1 .. MaxCalls
NoCall == 0

\* errors of the connection and of the protocol
ErrRead == "read error"
ErrWrite == "write error"
ErrUnexpected == "unexpected response"
ErrRPC == "rpc error"
DeadlineExceeded == "context deadline exceeded"
\* the cause of a context canceled without one (context.Canceled)
Canceled == "context canceled"

\* A promise of Transport.Send (MakePromise[Response](func() {}), l.264):
\* value is the ID of the Response it was resolved with, err the error it
\* was rejected with, re the request whose answer settled it.
NoPromise == [state |-> "none", value |-> NoValue, err |-> Nil, re |-> NoCall]
Pending == [state |-> "pending", value |-> NoValue, err |-> Nil, re |-> NoCall]

\* promise.Resolve and promise.Reject (src/cdp/broker.go:194-208) with the
\* empty hook: sync.Once lets the first of them act and ignores the rest
Resolved(p, id, re) ==
    IF p.state = "pending"
      THEN [state |-> "resolved", value |-> id, err |-> Nil, re |-> re]
      ELSE p
Rejected(p, e, re) ==
    IF p.state = "pending"
      THEN [state |-> "rejected", value |-> NoValue, err |-> e, re |-> re]
      ELSE p

NoFrame == [ID |-> 0, re |-> NoCall, Error |-> Nil, to |-> NoCall]
NoGet == [value |-> NoValue, err |-> Nil]

\* the Transport after Dial (l.180-205): seq starts at 1, the reader runs
TransportInit ==
    /\ t_cause = Nil
    /\ t_mutex = NoCall
    /\ t_seq = 1
    /\ t_pending = <<>>
    /\ t_wire = {}
    /\ t_assigned = <<>>
    /\ r_pc = "read"
    /\ r_frame = NoFrame
    /\ r_err = Nil
    /\ c_seq = [c \in Calls |-> 0]
    /\ c_promise = [c \in Calls |-> NoPromise]
    /\ c_ret = [c \in Calls |-> NoGet]

\* the callers are goroutines about to call Transport.Send
TInit ==
    /\ TransportInit
    /\ c_pc = [c \in Calls |-> "send"]

\* t.pending with key id set to call c, and with key id deleted
PendingPut(id, c) ==
    [k \in DOMAIN t_pending \cup {id} |-> IF k = id THEN c ELSE t_pending[k]]
PendingDelete(id) ==
    [k \in DOMAIN t_pending \ {id} |-> t_pending[k]]

\* a cancel that overwrites the cause: not context.WithCancelCause, but the
\* variant that shows what "the first cancel wins" is needed for
CancelCauseLast(old, cause) == cause

\* context.WithCancelCause: the first cancel records the cause
CancelCause(old, cause) == IF old = Nil THEN cause ELSE old

\* ---- Transport.Send (l.263-284) ----

\* resolver, future := MakePromise[Response](func() {}); if t.isClosed() {
\* resolver.Reject(t.error()); return future } (l.264-268), followed by the
\* caller's future.Get(ctx)
Send(c) ==
    /\ c_pc[c] = "send"
    /\ IF t_cause # Nil
         THEN /\ c_promise' = [c_promise EXCEPT ![c] = Rejected(Pending, t_cause, NoCall)]
              /\ c_pc' = [c_pc EXCEPT ![c] = "get"]
         ELSE /\ c_promise' = [c_promise EXCEPT ![c] = Pending]
              /\ c_pc' = [c_pc EXCEPT ![c] = "lock"]
    /\ UNCHANGED <<t_cause, t_mutex, t_seq, t_pending, t_wire,
                   t_assigned, r_pc, r_frame, r_err, c_seq, c_ret>>
    /\ UNCHANGED <<bvars, notT>>

\* seq := t.seq (l.270) as it would run without t.mutex: not the program's
\* Send, but the variant that shows what the mutex is needed for
SendLockNoMutex(c) ==
    /\ c_pc[c] = "lock"
    /\ c_seq' = [c_seq EXCEPT ![c] = t_seq]
    /\ c_pc' = [c_pc EXCEPT ![c] = "store"]
    /\ UNCHANGED <<t_cause, t_mutex, t_seq, t_pending, t_wire,
                   t_assigned, r_pc, r_frame, r_err, c_promise, c_ret>>
    /\ UNCHANGED <<bvars, notT>>

\* t.mutex.Lock(); seq := t.seq (l.269-270)
SendLock(c) ==
    /\ c_pc[c] = "lock"
    /\ t_mutex = NoCall
    /\ t_mutex' = c
    /\ c_seq' = [c_seq EXCEPT ![c] = t_seq]
    /\ c_pc' = [c_pc EXCEPT ![c] = "store"]
    /\ UNCHANGED <<t_cause, t_seq, t_pending, t_wire,
                   t_assigned, r_pc, r_frame, r_err, c_promise, c_ret>>
    /\ UNCHANGED <<bvars, notT>>

\* t.seq++; t.pending[seq] = resolver; request.ID = seq; t.mutex.Unlock()
\* (l.271-275)
SendStore(c) ==
    /\ c_pc[c] = "store"
    /\ t_seq' = t_seq + 1
    /\ t_pending' = PendingPut(c_seq[c], c)
    /\ t_assigned' = Append(t_assigned, c_seq[c])
    /\ t_mutex' = NoCall
    /\ c_pc' = [c_pc EXCEPT ![c] = "write"]
    /\ UNCHANGED <<t_cause, t_wire, r_pc, r_frame, r_err,
                   c_seq, c_promise, c_ret>>
    /\ UNCHANGED <<bvars, notT>>

\* t.conn.WriteJSON(request) (l.277): the frame is written, or the write fails
SendWrite(c) ==
    /\ c_pc[c] = "write"
    /\ \/ /\ t_wire' = t_wire \cup {[ID |-> c_seq[c], call |-> c]}
          /\ c_pc' = [c_pc EXCEPT ![c] = "get"]
       \/ /\ c_pc' = [c_pc EXCEPT ![c] = "failed"]
          /\ UNCHANGED t_wire
    /\ UNCHANGED <<t_cause, t_mutex, t_seq, t_pending,
                   t_assigned, r_pc, r_frame, r_err, c_seq, c_promise, c_ret>>
    /\ UNCHANGED <<bvars, notT>>

\* the handling of a failed write without the delete of l.279: not the
\* program's Send, but the variant that shows what the delete is needed for
SendFailedNoDelete(c) ==
    /\ c_pc[c] = "failed"
    /\ t_mutex = NoCall
    /\ c_pc' = [c_pc EXCEPT ![c] = "reject"]
    /\ UNCHANGED <<t_cause, t_mutex, t_seq, t_pending, t_wire,
                   t_assigned, r_pc, r_frame, r_err, c_seq, c_promise, c_ret>>
    /\ UNCHANGED <<bvars, notT>>

\* after a failed write: t.mutex.Lock(); delete(t.pending, seq);
\* t.mutex.Unlock() (l.278-280).  The mutex is released before the Reject
\* of l.281: the reader, gracefullyClose and other Sends can run between.
SendFailed(c) ==
    /\ c_pc[c] = "failed"
    /\ t_mutex = NoCall
    /\ t_pending' = PendingDelete(c_seq[c])
    /\ c_pc' = [c_pc EXCEPT ![c] = "reject"]
    /\ UNCHANGED <<t_cause, t_mutex, t_seq, t_wire,
                   t_assigned, r_pc, r_frame, r_err, c_seq, c_promise, c_ret>>
    /\ UNCHANGED <<bvars, notT>>

\* resolver.Reject(err) (l.281) with the write error, and the return of the
\* future (l.283)
SendReject(c) ==
    /\ c_pc[c] = "reject"
    /\ c_promise' = [c_promise EXCEPT ![c] = Rejected(@, ErrWrite, NoCall)]
    /\ c_pc' = [c_pc EXCEPT ![c] = "get"]
    /\ UNCHANGED <<t_cause, t_mutex, t_seq, t_pending, t_wire,
                   t_assigned, r_pc, r_frame, r_err, c_seq, c_ret>>
    /\ UNCHANGED <<bvars, notT>>

\* ---- the caller's future.Get(ctx) (src/cdp/broker.go:180-188) ----

\* The causes the context passed to Get can be done with: it has a deadline
\* (Session.Call, src/session.go:111, MakeFuture, src/main.go:78-99) that
\* may have elapsed, and its parent is the context of the session that
\* makes the call, itself a child of the Transport's; parent is the cause
\* of that session's context.
GetContextCauses(parent) == {DeadlineExceeded} \cup ({parent} \ {Nil})

\* the select of Get with a context whose parent has the cause parent: the
\* promise is settled, or the context is done
GetSelectContext(c, parent) ==
    /\ c_pc[c] = "get"
    /\ \/ /\ c_promise[c].state # "pending"
          /\ c_ret' = [c_ret EXCEPT ![c] =
                          [value |-> c_promise[c].value, err |-> c_promise[c].err]]
       \/ \E cause \in GetContextCauses(parent) :
             c_ret' = [c_ret EXCEPT ![c] =
                          [value |-> c_promise[c].value, err |-> cause]]
    /\ c_pc' = [c_pc EXCEPT ![c] = "cancel"]
    /\ UNCHANGED <<t_cause, t_mutex, t_seq, t_pending, t_wire,
                   t_assigned, r_pc, r_frame, r_err, c_seq, c_promise>>
    /\ UNCHANGED <<bvars, notT>>

\* future.Get(ctxTo) of a call of the session (src/session.go:111-113)
Get(c) == GetSelectContext(c, s_cause)

\* the same of a call of the sibling session
SiblingGet(c) == GetSelectContext(c, s2_cause)

\* a Cancel that also forgets the pending entry of the request: not the
\* program's Cancel, but the variant that shows what leaving the entry in
\* t.pending is needed for
GetCancelForget(c) ==
    /\ c_pc[c] = "cancel"
    /\ t_mutex = NoCall
    /\ t_pending' = PendingDelete(c_seq[c])
    /\ c_promise' = [c_promise EXCEPT ![c] = Rejected(@, ErrPromiseCanceled, NoCall)]
    /\ c_pc' = [c_pc EXCEPT ![c] = "ret"]
    /\ UNCHANGED <<t_cause, t_mutex, t_seq, t_wire,
                   t_assigned, r_pc, r_frame, r_err, c_seq, c_ret>>
    /\ UNCHANGED <<bvars, notT>>

\* the Cancel that Get defers (and the one Session.Call defers, which finds
\* the promise settled)
GetCancel(c) ==
    /\ c_pc[c] = "cancel"
    /\ c_promise' = [c_promise EXCEPT ![c] = Rejected(@, ErrPromiseCanceled, NoCall)]
    /\ c_pc' = [c_pc EXCEPT ![c] = "ret"]
    /\ UNCHANGED <<t_cause, t_mutex, t_seq, t_pending, t_wire,
                   t_assigned, r_pc, r_frame, r_err, c_seq, c_ret>>
    /\ UNCHANGED <<bvars, notT>>

\* ---- the reader goroutine (Dial l.197-203, Transport.read l.286-312) ----

\* t.conn.ReadJSON(&response) (l.288) yields the remote side's answer to a
\* request frame it has not answered yet: a result or a protocol error
ReadResponse(f, error) ==
    /\ r_pc = "read"
    /\ f \in t_wire
    /\ t_wire' = t_wire \ {f}
    /\ r_frame' = [ID |-> f.ID, re |-> f.call, Error |-> error, to |-> NoCall]
    /\ r_pc' = "lookup"
    /\ UNCHANGED <<t_cause, t_mutex, t_seq, t_pending, t_assigned, r_err,
                   c_pc, c_seq, c_promise, c_ret>>
    /\ UNCHANGED <<bvars, notT>>

\* ReadJSON yields a frame that carries neither an id nor a message
ReadUnsolicited ==
    /\ r_pc = "read"
    /\ r_frame' = NoFrame
    /\ r_pc' = "lookup"
    /\ UNCHANGED <<t_cause, t_mutex, t_seq, t_pending, t_wire, t_assigned, r_err,
                   c_pc, c_seq, c_promise, c_ret>>
    /\ UNCHANGED <<bvars, notT>>

\* ReadJSON yields a frame with an id that answers no request on the wire:
\* a second response for an answered id, or an id the Transport has not
\* used
StrayIDs == 1 .. MaxSessionCalls + 1
ReadStray(id) ==
    /\ r_pc = "read"
    /\ id \notin {f.ID : f \in t_wire}
    /\ r_frame' = [ID |-> id, re |-> NoCall, Error |-> Nil, to |-> NoCall]
    /\ r_pc' = "lookup"
    /\ UNCHANGED <<t_cause, t_mutex, t_seq, t_pending, t_wire, t_assigned, r_err,
                   c_pc, c_seq, c_promise, c_ret>>
    /\ UNCHANGED <<bvars, notT>>

\* t.conn.ReadJSON fails (l.288-290): read returns the error
ReadError ==
    /\ r_pc = "read"
    /\ r_err' = ErrRead
    /\ r_pc' = "cancel"
    /\ UNCHANGED <<t_cause, t_mutex, t_seq, t_pending, t_wire, t_assigned,
                   r_frame, c_pc, c_seq, c_promise, c_ret>>
    /\ UNCHANGED <<bvars, notT>>

\* a lookup that takes any pending promise instead of the one stored under
\* response.ID: not the program's read, but the variant that shows what the
\* lookup by id is needed for
ReadLookupAny ==
    /\ r_pc = "lookup"
    /\ t_mutex = NoCall
    /\ IF DOMAIN t_pending # {}
         THEN \E k \in DOMAIN t_pending :
                 /\ r_frame' = [r_frame EXCEPT !.to = t_pending[k]]
                 /\ t_pending' = [j \in DOMAIN t_pending \ {k} |-> t_pending[j]]
                 /\ r_pc' = "settle"
                 /\ UNCHANGED r_err
         ELSE /\ r_err' = ErrUnexpected
              /\ r_pc' = "cancel"
              /\ UNCHANGED <<r_frame, t_pending>>
    /\ UNCHANGED <<t_cause, t_mutex, t_seq, t_wire, t_assigned,
                   c_pc, c_seq, c_promise, c_ret>>
    /\ UNCHANGED <<bvars, notT>>

\* a lookup that drops a frame whose id is not pending and reads on: not
\* the program's read, but the variant that shows what the error of l.303-305
\* is needed for
ReadLookupIgnore ==
    /\ r_pc = "lookup"
    /\ t_mutex = NoCall
    /\ IF r_frame.ID \in DOMAIN t_pending
         THEN /\ r_frame' = [r_frame EXCEPT !.to = t_pending[r_frame.ID]]
              /\ t_pending' = PendingDelete(r_frame.ID)
              /\ r_pc' = "settle"
         ELSE /\ r_frame' = NoFrame
              /\ r_pc' = "read"
              /\ UNCHANGED t_pending
    /\ UNCHANGED <<t_cause, t_mutex, t_seq, t_wire, t_assigned, r_err,
                   c_pc, c_seq, c_promise, c_ret>>
    /\ UNCHANGED <<bvars, notT>>

\* Lock; value, ok := t.pending[response.ID]; delete; Unlock; if !ok return
\* the unexpected-response error (l.298-305)
ReadLookup ==
    /\ r_pc = "lookup"
    /\ t_mutex = NoCall
    /\ IF r_frame.ID \in DOMAIN t_pending
         THEN /\ r_frame' = [r_frame EXCEPT !.to = t_pending[r_frame.ID]]
              /\ t_pending' = PendingDelete(r_frame.ID)
              /\ r_pc' = "settle"
              /\ UNCHANGED r_err
         ELSE /\ r_err' = ErrUnexpected
              /\ r_pc' = "cancel"
              /\ UNCHANGED <<r_frame, t_pending>>
    /\ UNCHANGED <<t_cause, t_mutex, t_seq, t_wire, t_assigned,
                   c_pc, c_seq, c_promise, c_ret>>
    /\ UNCHANGED <<bvars, notT>>

\* a read that settles every caller on a response: not the program's read,
\* but the variant that shows what settling only the promise found under
\* response.ID is needed for
ReadSettleAll ==
    /\ r_pc = "settle"
    /\ c_promise' = [c \in Calls |->
                        IF r_frame.Error # Nil
                          THEN Rejected(c_promise[c], r_frame.Error, r_frame.re)
                          ELSE Resolved(c_promise[c], r_frame.ID, r_frame.re)]
    /\ r_frame' = NoFrame
    /\ r_pc' = "read"
    /\ UNCHANGED <<t_cause, t_mutex, t_seq, t_pending, t_wire, t_assigned,
                   r_err, c_pc, c_seq, c_ret>>
    /\ UNCHANGED <<bvars, notT>>

\* value.Reject(response.Error) or value.Resolve(response) (l.306-311)
ReadSettle ==
    /\ r_pc = "settle"
    /\ c_promise' = [c_promise EXCEPT ![r_frame.to] =
                        IF r_frame.Error # Nil
                          THEN Rejected(@, r_frame.Error, r_frame.re)
                          ELSE Resolved(@, r_frame.ID, r_frame.re)]
    /\ r_frame' = NoFrame
    /\ r_pc' = "read"
    /\ UNCHANGED <<t_cause, t_mutex, t_seq, t_pending, t_wire, t_assigned,
                   r_err, c_pc, c_seq, c_ret>>
    /\ UNCHANGED <<bvars, notT>>

\* transport.cancel(readerr) with a session context that is no child of the
\* Transport's: not the program, but the variant that shows what deriving
\* the session's context from transport.Context() is needed for
ReaderCancelNoChild ==
    /\ r_pc = "cancel"
    /\ t_cause' = CancelCause(t_cause, r_err)
    /\ r_pc' = "gracefullyClose"
    /\ UNCHANGED <<t_mutex, t_seq, t_pending, t_wire, t_assigned,
                   r_frame, r_err, c_pc, c_seq, c_promise, c_ret>>
    /\ UNCHANGED <<s_cause, s2_cause, h_pc, h_err, e_sent, h_frames, h_seen, f_uid>>
    /\ UNCHANGED <<bvars, pvars, wvars>>

\* transport.cancel(readerr) (l.201); the session's context is a child of
\* the Transport's (src/session.go:143) and is canceled with it
ReaderCancel ==
    /\ r_pc = "cancel"
    /\ t_cause' = CancelCause(t_cause, r_err)
    /\ s_cause' = CancelCause(s_cause, t_cause')
    /\ s2_cause' = CancelCause(s2_cause, t_cause')
    /\ r_pc' = "gracefullyClose"
    /\ UNCHANGED <<t_mutex, t_seq, t_pending, t_wire, t_assigned,
                   r_frame, r_err, c_pc, c_seq, c_promise, c_ret>>
    /\ UNCHANGED <<h_pc, h_err, e_sent, h_frames, h_seen, f_uid>>
    /\ UNCHANGED <<bvars, pvars, wvars>>

\* the parent context handed to Dial (l.180) is canceled: the Transport's
\* context, its child (l.186), is canceled with it, and so is the session's
ParentCancel ==
    /\ t_cause = Nil
    /\ t_cause' = Canceled
    /\ s_cause' = CancelCause(s_cause, t_cause')
    /\ s2_cause' = CancelCause(s2_cause, t_cause')
    /\ UNCHANGED <<t_mutex, t_seq, t_pending, t_wire, t_assigned,
                   r_pc, r_frame, r_err, c_pc, c_seq, c_promise, c_ret>>
    /\ UNCHANGED <<h_pc, h_err, e_sent, h_frames, h_seen, f_uid>>
    /\ UNCHANGED <<bvars, pvars, wvars>>

\* gracefullyClose deleting the pending promises without rejecting them:
\* not the program's teardown, but the variant that shows what the Reject of
\* l.247 is needed for
GracefullyCloseNoReject ==
    /\ r_pc = "gracefullyClose"
    /\ t_mutex = NoCall
    /\ b_cancel' = TRUE
    /\ t_pending' = <<>>
    /\ r_pc' = "done"
    /\ UNCHANGED <<t_cause, t_mutex, t_seq, t_wire, t_assigned,
                   r_frame, r_err, c_pc, c_seq, c_promise, c_ret>>
    /\ UNCHANGED <<b_state, b_panic, b_sub, b_unsub, b_publish, b_value, b_made,
                   b_calls, m_buf, m_closed>>
    /\ UNCHANGED notT

\* Transport.gracefullyClose (l.242-251): under the mutex, cancel the broker
\* and reject and delete every pending promise
GracefullyClose ==
    /\ r_pc = "gracefullyClose"
    /\ t_mutex = NoCall
    /\ b_cancel' = TRUE
    /\ c_promise' = [c \in Calls |->
                        IF \E k \in DOMAIN t_pending : t_pending[k] = c
                          THEN Rejected(c_promise[c], t_cause, NoCall)
                          ELSE c_promise[c]]
    /\ t_pending' = <<>>
    /\ r_pc' = "done"
    /\ UNCHANGED <<t_cause, t_mutex, t_seq, t_wire, t_assigned,
                   r_frame, r_err, c_pc, c_seq, c_ret>>
    /\ UNCHANGED <<b_state, b_panic, b_sub, b_unsub, b_publish, b_value, b_made,
                   b_calls, m_buf, m_closed>>
    /\ UNCHANGED notT

TNext ==
    \/ \E c \in Calls :
          \/ Send(c)
          \/ SendLock(c)
          \/ SendStore(c)
          \/ SendWrite(c)
          \/ SendFailed(c)
          \/ SendReject(c)
          \/ Get(c)
          \/ GetCancel(c)
    \/ \E f \in t_wire, e \in {Nil, ErrRPC} : ReadResponse(f, e)
    \/ ReadUnsolicited
    \/ ReadError
    \/ ReadLookup
    \/ ReadSettle
    \/ ReaderCancel
    \/ ParentCancel
    \/ GracefullyClose

\* the Transport with a remote side that also sends frames nobody asked for
StrayNext ==
    \/ \E c \in 1 .. MaxSessionCalls :
          \/ Send(c)
          \/ SendLock(c)
          \/ SendStore(c)
          \/ SendWrite(c)
          \/ SendFailed(c)
          \/ SendReject(c)
          \/ Get(c)
          \/ GetCancel(c)
    \/ \E f \in t_wire, e \in {Nil, ErrRPC} : ReadResponse(f, e)
    \/ ReadUnsolicited
    \/ \E id \in StrayIDs : ReadStray(id)
    \/ ReadLookup
    \/ ReadSettle
    \/ ReaderCancel
    \/ GracefullyClose

(***************************************************************************)
(* The Session: src/session.go:30-220                                      *)
(***************************************************************************)
ErrTargetDestroyed == "target destroyed"
ErrTargetDetached == "session detached from target"
\* TargetCrashedError (l.37-41): the error's text is the event's parameters
TargetCrashedError(params) == params

\* the session of the model, its target and the mailbox NewSession
\* subscribed (l.151-152)
sessionID == "A"
targetID == "T1"
channel == 1
SessionCalls == 1 .. MaxSessionCalls

\* the event frames the remote side sends: the three terminal events, sent
\* on the browser-level session and naming this session or target, a
\* detach of another session, and an event of this session that handle
\* ignores
SessionEvents ==
    [SessionID : {""}, Method : {"Target.detachedFromTarget"},
     Params : {sessionID, "B"}]
    \cup [SessionID : {""},
          Method : {"Target.targetDestroyed", "Target.targetCrashed"},
          Params : {targetID}]
    \cup [SessionID : {sessionID}, Method : {"Page.loadEventFired"}, Params : {""}]

\* the session after NewSession (l.128-176): its context is live, its
\* mailbox is registered with the broker, its goroutine ranges over it
SInit ==
    /\ s_cause = Nil
    /\ s2_cause = Nil
    /\ h_pc = "range"
    /\ h_err = Nil
    /\ e_sent = 0
    /\ h_frames = <<>>
    /\ h_seen = <<>>
    /\ f_uid = [c \in Calls |-> ""]

SessionBrokerInit ==
    /\ b_state = "running"
    /\ b_panic = Nil
    /\ b_cancel = FALSE
    /\ b_sub = <<>>
    /\ b_unsub = <<>>
    /\ b_publish = <<>>
    /\ b_value = [ch \in {channel} |-> sessionID]
    /\ b_made = 1
    /\ b_calls = [unsub |-> 0, publish |-> 0]
    /\ m_buf = [ch \in Mailboxes |-> <<>>]
    /\ m_closed = [ch \in Mailboxes |-> FALSE]

SessionCallersInit == c_pc = [c \in Calls |-> "idle"]

\* Session.Call without the select of l.99-104: not the program's Call, but
\* the variant that shows what the check of the context is needed for
SessionCallNoCheck(c) ==
    /\ c_pc[c] = "idle"
    /\ c_pc' = [c_pc EXCEPT ![c] = "send"]
    /\ UNCHANGED <<t_cause, t_mutex, t_seq, t_pending, t_wire, t_assigned,
                   r_pc, r_frame, r_err, c_seq, c_promise, c_ret>>
    /\ UNCHANGED <<bvars, notT>>

\* Session.Call (l.98-104): if the context is done return its cause, else
\* go on to s.transport.Send and future.Get
SessionCall(c) ==
    /\ c_pc[c] = "idle"
    /\ IF s_cause # Nil
         THEN /\ c_ret' = [c_ret EXCEPT ![c] = [value |-> NoValue, err |-> s_cause]]
              /\ c_pc' = [c_pc EXCEPT ![c] = "ret"]
         ELSE /\ c_pc' = [c_pc EXCEPT ![c] = "send"]
              /\ UNCHANGED c_ret
    /\ UNCHANGED <<t_cause, t_mutex, t_seq, t_pending, t_wire, t_assigned,
                   r_pc, r_frame, r_err, c_seq, c_promise>>
    /\ UNCHANGED <<bvars, notT>>

\* Transport.read (src/cdp/promise.go:288-296): ReadJSON yields an event
\* frame and read hands it to broker.Publish
ReadEvent(message) ==
    /\ r_pc = "read"
    /\ e_sent < MaxEvents
    /\ Len(b_publish) < PublishCap
    /\ b_publish' = Append(b_publish, message)
    /\ e_sent' = e_sent + 1
    /\ UNCHANGED <<b_state, b_panic, b_cancel, b_sub, b_unsub, b_value, b_made,
                   b_calls, m_buf, m_closed>>
    /\ UNCHANGED <<s_cause, s2_cause, h_pc, h_err, h_frames, h_seen, f_uid>>
    /\ UNCHANGED <<pvars, tvars, wvars>>

\* handle returning for every detached, destroyed or crashed event, whatever
\* it names: not the program's handle, but the variant that shows what the
\* comparisons of l.202, l.208 and l.214 are needed for
HandleResultAny(message) ==
    IF message.Method = "Target.detachedFromTarget" THEN ErrTargetDetached
    ELSE IF message.Method = "Target.targetDestroyed" THEN ErrTargetDestroyed
    ELSE IF message.Method = "Target.targetCrashed"
      THEN TargetCrashedError(message.Params)
    ELSE Nil

\* what one iteration of handle's loop returns for a message (l.187-217),
\* Nil when the loop goes on
HandleResult(message) ==
    IF message.Method = "Target.detachedFromTarget" /\ sessionID = message.Params
      THEN ErrTargetDetached
    ELSE IF message.Method = "Target.targetDestroyed" /\ targetID = message.Params
      THEN ErrTargetDestroyed
    ELSE IF message.Method = "Target.targetCrashed" /\ targetID = message.Params
      THEN TargetCrashedError(message.Params)
    ELSE Nil

\* sync.Map's Store, Delete and Load on the frame table: a map is a
\* function whose domain is the set of its keys
Store(m, key, value) ==
    [k \in DOMAIN m \cup {key} |-> IF k = key THEN value ELSE m[k]]
\* a Delete that leaves the entry in place: not sync.Map's Delete, but the
\* variant that shows what removing the frame's entry is needed for
DeleteNothing(m, key) == m
Delete(m, key) == [k \in DOMAIN m \ {key} |-> m[k]]
Load(m, key) ==
    IF key \in DOMAIN m THEN [value |-> m[key], ok |-> TRUE]
                        ELSE [value |-> "", ok |-> FALSE]

createdMethod == "Runtime.executionContextCreated"
detachedMethod == "Page.frameDetached"
FrameMethods == {createdMethod, detachedMethod}

\* what one iteration of handle's loop does to the frame table (l.190-198):
\* executionContextCreated stores the context's unique id under the frame
\* id of its aux data, frameDetached deletes the frame's entry
HandleFrames(frames, message) ==
    IF message.Method = createdMethod
      THEN Store(frames, message.Params.frameId, message.Params.uniqueId)
    ELSE IF message.Method = detachedMethod
      THEN Delete(frames, message.Params.frameId)
    ELSE frames

\* for message := range channel (l.187): the next message of the mailbox
HandleMessage ==
    /\ h_pc = "range"
    /\ m_buf[channel] # <<>>
    /\ m_buf' = [m_buf EXCEPT ![channel] = Tail(@)]
    /\ h_frames' = HandleFrames(h_frames, Head(m_buf[channel]))
    /\ h_seen' = IF Head(m_buf[channel]).Method \in FrameMethods
                   THEN Append(h_seen, Head(m_buf[channel]))
                   ELSE h_seen
    /\ LET err == HandleResult(Head(m_buf[channel]))
       IN  IF err # Nil
             THEN h_err' = err /\ h_pc' = "unsubscribe"
             ELSE UNCHANGED <<h_err, h_pc>>
    /\ UNCHANGED <<b_state, b_panic, b_cancel, b_sub, b_unsub, b_publish, b_value,
                   b_made, b_calls, m_closed>>
    /\ UNCHANGED <<s_cause, s2_cause, e_sent, f_uid>>
    /\ UNCHANGED <<pvars, tvars, wvars>>

\* the mailbox is closed and drained: handle returns nil (l.219) and the
\* goroutine ends without canceling anything (l.154)
HandleClosed ==
    /\ h_pc = "range"
    /\ EndOfStream(channel)
    /\ h_pc' = "exit"
    /\ UNCHANGED <<s_cause, s2_cause, h_err, e_sent, h_frames, h_seen, f_uid>>
    /\ UNCHANGED <<pvars, bvars, tvars, wvars>>

\* unsubscribe() (l.155): broker.Unsubscribe sends the mailbox on b.unsub
HandleUnsubscribe ==
    /\ h_pc = "unsubscribe"
    /\ Len(b_unsub) < UnsubCap
    /\ b_unsub' = Append(b_unsub, channel)
    /\ h_pc' = "cancel"
    /\ UNCHANGED <<b_state, b_panic, b_cancel, b_sub, b_publish, b_value, b_made,
                   b_calls, m_buf, m_closed>>
    /\ UNCHANGED <<s_cause, s2_cause, h_err, e_sent, h_frames, h_seen, f_uid>>
    /\ UNCHANGED <<pvars, tvars, wvars>>

\* cancel(err) (l.156) canceling the sibling's context as well: not the
\* program's cancel, but the variant that shows what the separate contexts
\* of the sessions are needed for
HandleCancelAll ==
    /\ h_pc = "cancel"
    /\ s_cause' = CancelCause(s_cause, h_err)
    /\ s2_cause' = CancelCause(s2_cause, h_err)
    /\ h_pc' = "done"
    /\ UNCHANGED <<h_err, e_sent, h_frames, h_seen, f_uid>>
    /\ UNCHANGED <<pvars, bvars, tvars, wvars>>

\* cancel(err) (l.156)
HandleCancel ==
    /\ h_pc = "cancel"
    /\ s_cause' = CancelCause(s_cause, h_err)
    /\ h_pc' = "done"
    /\ UNCHANGED <<s2_cause, h_err, e_sent, h_frames, h_seen, f_uid>>
    /\ UNCHANGED <<pvars, bvars, tvars, wvars>>

\* the event frames of SessionEvents that name this session or its target,
\* or are events of this session; what handle does with a detach of another
\* session is left to SpecLifecycle
OwnEvents == {message \in SessionEvents : message.Params # "B"}

SNext ==
    \/ \E c \in SessionCalls :
          \/ SessionCall(c)
          \/ Send(c)
          \/ SendLock(c)
          \/ SendStore(c)
          \/ SendWrite(c)
          \/ SendFailed(c)
          \/ SendReject(c)
          \/ Get(c)
          \/ GetCancel(c)
    \/ \E f \in t_wire, e \in {Nil, ErrRPC} : ReadResponse(f, e)
    \/ \E message \in OwnEvents : ReadEvent(message)
    \/ ReadError
    \/ ReadLookup
    \/ ReadSettle
    \/ ReaderCancel
    \/ GracefullyClose
    \/ RunCancel
    \/ RunUnsub
    \/ RunPublish
    \/ HandleMessage
    \/ HandleClosed
    \/ HandleUnsubscribe
    \/ HandleCancel

\* the state after NewSession has returned
InitSession ==
    PInit /\ SessionBrokerInit /\ TransportInit /\ SessionCallersInit /\ SInit
        /\ WInit

SpecSession == InitSession /\ [][SNext]_vars

\* ---- two sessions on one Transport ----

\* a second session attached through the same Transport (NewSession,
\* l.128-176): its session id, the mailbox it subscribed, and the callers
\* that wait with a context derived from its context
siblingID == "B"
siblingChannel == 2
SiblingCalls == Calls \ SessionCalls

\* the event frames that do not name the sibling: its handle loop (l.187-217)
\* returns nothing for them and goes on
SiblingEvents == {message \in SessionEvents : message.Params # siblingID}

\* for message := range channel (l.187) of the sibling: the message is not
\* a terminal event of the sibling, the loop goes on
SiblingHandleMessage ==
    /\ m_buf[siblingChannel] # <<>>
    /\ \A i \in 1 .. Len(m_buf[siblingChannel]) :
           m_buf[siblingChannel][i] \in SiblingEvents
    /\ Receive(siblingChannel)

\* both sessions after NewSession: both mailboxes registered, both contexts
\* live, the sibling about to send a call
InitSiblings ==
    /\ PInit /\ TransportInit /\ SInit /\ WInit
    /\ b_state = "running"
    /\ b_panic = Nil
    /\ b_cancel = FALSE
    /\ b_sub = <<>>
    /\ b_unsub = <<>>
    /\ b_publish = <<>>
    /\ b_value = [ch \in {channel, siblingChannel} |->
                     IF ch = channel THEN sessionID ELSE siblingID]
    /\ b_made = 2
    /\ b_calls = [unsub |-> 0, publish |-> 0]
    /\ m_buf = [ch \in Mailboxes |-> <<>>]
    /\ m_closed = [ch \in Mailboxes |-> FALSE]
    /\ c_pc = [c \in Calls |-> IF c \in SiblingCalls THEN "send" ELSE "idle"]

SiblingNext ==
    \/ \E c \in SiblingCalls :
          \/ Send(c)
          \/ SendLock(c)
          \/ SendStore(c)
          \/ SendWrite(c)
          \/ SendFailed(c)
          \/ SendReject(c)
          \/ SiblingGet(c)
          \/ GetCancel(c)
    \/ \E f \in t_wire, e \in {Nil, ErrRPC} : ReadResponse(f, e)
    \/ \E message \in SiblingEvents : ReadEvent(message)
    \/ ReadError
    \/ ReadLookup
    \/ ReadSettle
    \/ ReaderCancel
    \/ GracefullyClose
    \/ RunCancel
    \/ RunUnsub
    \/ RunPublish
    \/ HandleMessage
    \/ HandleClosed
    \/ HandleUnsubscribe
    \/ HandleCancel
    \/ SiblingHandleMessage

SpecSiblings == InitSiblings /\ [][SiblingNext]_vars

(***************************************************************************)
(* Transport.Close and the writers of the connection:                      *)
(* src/cdp/promise.go:230-240, 263-284                                     *)
(***************************************************************************)
ErrGracefullyClosed == "gracefully closed"
ErrConnClose == "close error"

\* the goroutine that calls Transport.Close; the other callers call
\* Transport.Send and Get
Closer == MaxCalls
Senders == Calls \ {Closer}

\* t.conn.Close() (l.239) has not run
ConnOpen == c_pc[Closer] # "closed"

\* t.conn.WriteJSON(request) (l.277) is entered: the mutex was released at
\* l.275
SendWriteEnter(c) ==
    /\ c_pc[c] = "write"
    /\ c_pc' = [c_pc EXCEPT ![c] = "writing"]
    /\ UNCHANGED <<t_cause, t_mutex, t_seq, t_pending, t_wire,
                   t_assigned, r_pc, r_frame, r_err, c_seq, c_promise, c_ret>>
    /\ UNCHANGED <<bvars, notT>>

\* t.conn.WriteJSON(request) returns: the frame is written, or the write
\* has failed; on a closed connection it fails
SendWriteExit(c) ==
    /\ c_pc[c] = "writing"
    /\ \/ /\ ConnOpen
          /\ t_wire' = t_wire \cup {[ID |-> c_seq[c], call |-> c]}
          /\ c_pc' = [c_pc EXCEPT ![c] = "get"]
       \/ /\ c_pc' = [c_pc EXCEPT ![c] = "failed"]
          /\ UNCHANGED t_wire
    /\ UNCHANGED <<t_cause, t_mutex, t_seq, t_pending,
                   t_assigned, r_pc, r_frame, r_err, c_seq, c_promise, c_ret>>
    /\ UNCHANGED <<bvars, notT>>

\* if t.isClosed() { return t.error() } (l.231-233), else Close goes on to
\* t.Send(&Request{Method: "Browser.close"}) (l.234)
CloseStart ==
    /\ c_pc[Closer] = "close"
    /\ IF t_cause # Nil
         THEN /\ c_ret' = [c_ret EXCEPT ![Closer] = [value |-> NoValue, err |-> t_cause]]
              /\ c_pc' = [c_pc EXCEPT ![Closer] = "ret"]
         ELSE /\ c_pc' = [c_pc EXCEPT ![Closer] = "send"]
              /\ UNCHANGED c_ret
    /\ UNCHANGED <<t_cause, t_mutex, t_seq, t_pending, t_wire, t_assigned,
                   r_pc, r_frame, r_err, c_seq, c_promise>>
    /\ UNCHANGED <<bvars, notT>>

\* .Get(t.context) (l.234): the select of promise.Get with the Transport's
\* context, which has no deadline
CloseGet ==
    /\ c_pc[Closer] = "get"
    /\ \/ /\ c_promise[Closer].state # "pending"
          /\ c_ret' = [c_ret EXCEPT ![Closer] =
                          [value |-> c_promise[Closer].value,
                           err |-> c_promise[Closer].err]]
       \/ /\ t_cause # Nil
          /\ c_ret' = [c_ret EXCEPT ![Closer] =
                          [value |-> c_promise[Closer].value, err |-> t_cause]]
    /\ c_pc' = [c_pc EXCEPT ![Closer] = "getCancel"]
    /\ UNCHANGED <<t_cause, t_mutex, t_seq, t_pending, t_wire,
                   t_assigned, r_pc, r_frame, r_err, c_seq, c_promise>>
    /\ UNCHANGED <<bvars, notT>>

\* the Cancel that Get defers, then if err != nil { return err } (l.235-237)
CloseGetCancel ==
    /\ c_pc[Closer] = "getCancel"
    /\ c_promise' = [c_promise EXCEPT ![Closer] = Rejected(@, ErrPromiseCanceled, NoCall)]
    /\ c_pc' = [c_pc EXCEPT ![Closer] =
                   IF c_ret[Closer].err # Nil THEN "ret" ELSE "cancelCause"]
    /\ UNCHANGED <<t_cause, t_mutex, t_seq, t_pending, t_wire,
                   t_assigned, r_pc, r_frame, r_err, c_seq, c_ret>>
    /\ UNCHANGED <<bvars, notT>>

\* a Close that tears the Transport down itself, canceling the broker as
\* gracefullyClose does: not the program's Close, but the variant that shows
\* what leaving the teardown to the reader is needed for
CloseCancelTeardown ==
    /\ c_pc[Closer] = "cancelCause"
    /\ t_cause' = CancelCause(t_cause, ErrGracefullyClosed)
    /\ s_cause' = CancelCause(s_cause, t_cause')
    /\ s2_cause' = CancelCause(s2_cause, t_cause')
    /\ c_pc' = [c_pc EXCEPT ![Closer] = "connClose"]
    /\ b_cancel' = TRUE
    /\ UNCHANGED <<t_mutex, t_seq, t_pending, t_wire, t_assigned,
                   r_pc, r_frame, r_err, c_seq, c_promise, c_ret>>
    /\ UNCHANGED <<h_pc, h_err, e_sent, h_frames, h_seen, f_uid>>
    /\ UNCHANGED <<b_state, b_panic, b_sub, b_unsub, b_publish, b_value, b_made,
                   b_calls, m_buf, m_closed>>
    /\ UNCHANGED <<pvars, wvars>>

\* t.cancel(errors.New("gracefully closed")) (l.238)
CloseCancel ==
    /\ c_pc[Closer] = "cancelCause"
    /\ t_cause' = CancelCause(t_cause, ErrGracefullyClosed)
    /\ s_cause' = CancelCause(s_cause, t_cause')
    /\ s2_cause' = CancelCause(s2_cause, t_cause')
    /\ c_pc' = [c_pc EXCEPT ![Closer] = "connClose"]
    /\ UNCHANGED <<t_mutex, t_seq, t_pending, t_wire, t_assigned,
                   r_pc, r_frame, r_err, c_seq, c_promise, c_ret>>
    /\ UNCHANGED <<h_pc, h_err, e_sent, h_frames, h_seen, f_uid>>
    /\ UNCHANGED <<bvars, pvars, wvars>>

\* return t.conn.Close() (l.239): the connection is closed, with or without
\* an error
CloseConn ==
    /\ c_pc[Closer] = "connClose"
    /\ \E err \in {Nil, ErrConnClose} :
          c_ret' = [c_ret EXCEPT ![Closer] = [value |-> NoValue, err |-> err]]
    /\ c_pc' = [c_pc EXCEPT ![Closer] = "closed"]
    /\ UNCHANGED <<t_cause, t_mutex, t_seq, t_pending, t_wire, t_assigned,
                   r_pc, r_frame, r_err, c_seq, c_promise>>
    /\ UNCHANGED <<bvars, notT>>

CNext ==
    \/ \E c \in Calls :
          \/ Send(c)
          \/ SendLock(c)
          \/ SendStore(c)
          \/ SendWriteEnter(c)
          \/ SendWriteExit(c)
          \/ SendFailed(c)
          \/ SendReject(c)
    \/ \E c \in Senders :
          \/ Get(c)
          \/ GetCancel(c)
    \/ CloseStart
    \/ CloseGet
    \/ CloseGetCancel
    \/ CloseCancel
    \/ CloseConn
    \/ \E f \in t_wire, e \in {Nil, ErrRPC} : ConnOpen /\ ReadResponse(f, e)
    \/ ReadError
    \/ ReadLookup
    \/ ReadSettle
    \/ ReaderCancel
    \/ GracefullyClose

\* the Transport after Dial: one goroutine is about to call Close, the
\* others to call Send
InitClose ==
    /\ PInit /\ BInit /\ TransportInit /\ SInit /\ WInit
    /\ c_pc = [c \in Calls |-> IF c = Closer THEN "close" ELSE "send"]

SpecClose == InitClose /\ [][CNext]_vars

\* every way a Transport ends, with the reader publishing events meanwhile:
\* Transport.Close, a read error, the cancellation of the parent context
ShutdownNext ==
    \/ Send(Closer)
    \/ SendLock(Closer)
    \/ SendStore(Closer)
    \/ SendWriteEnter(Closer)
    \/ SendWriteExit(Closer)
    \/ SendFailed(Closer)
    \/ SendReject(Closer)
    \/ CloseStart
    \/ CloseGet
    \/ CloseGetCancel
    \/ CloseCancel
    \/ CloseConn
    \/ \E f \in t_wire, e \in {Nil, ErrRPC} : ConnOpen /\ ReadResponse(f, e)
    \/ \E message \in SessionEvents : ConnOpen /\ ReadEvent(message)
    \/ ReadError
    \/ ReadLookup
    \/ ReadSettle
    \/ ReaderCancel
    \/ ParentCancel
    \/ GracefullyClose
    \/ RunCancel
    \/ RunPublish

SpecShutdown == InitClose /\ [][ShutdownNext]_vars

\* C22: when Close has closed the connection and returned nil, the cause of
\* the Transport's context is the graceful-closure cause.
C22_GracefulCause ==
    (c_pc[Closer] = "closed" /\ c_ret[Closer].err = Nil) =>
        t_cause = ErrGracefullyClosed

\* C24: at most one goroutine at a time is inside the connection's write
\* operation.
C24_SingleWriter ==
    Cardinality({c \in Calls : c_pc[c] = "writing"}) <= 1

(***************************************************************************)
(* The event-wait: src/main.go:49-99                                       *)
(***************************************************************************)
\* the goroutines that use the promise of one MakeFuture: the caller of
\* Get, the goroutine MakeFuture starts (l.81-95), a caller of Cancel
Waiter == 1
Ranger == 2
Canceler == 3

\* the method the wait asks for and another method of the same session
waitMethod == "Network.loadingFinished"
otherMethod == "Network.requestWillBeSent"

ErrDecode == "unexpected end of JSON input"

\* json.Unmarshal(value.Params, &result) (l.85): the payloads of the model
\* are the JSON texts of three numbers and one truncated text
Unmarshal(params) ==
    IF params = "1" THEN [result |-> 1, err |-> Nil]
    ELSE IF params = "2" THEN [result |-> 2, err |-> Nil]
    ELSE IF params = "3" THEN [result |-> 3, err |-> Nil]
    ELSE [result |-> NoValue, err |-> ErrDecode]

\* the predicate handed to MakeFuture
filter(result) == result >= 2

\* the event frames of the session that the remote side sends
WaitEvents ==
    [SessionID : {sessionID}, Method : {waitMethod}, Params : {"{", "1", "2", "3"}]
    \cup [SessionID : {sessionID}, Method : {otherMethod}, Params : {"2"}]

\* the process has not died of a panic
WaitAlive == Alive /\ \A t \in PThreads : p_pc[t] # "panic"

\* Transport.Subscribe without the check of l.254: not the program's
\* Subscribe, but the variant that shows what the check is needed for
WaitIsClosedNoCheck ==
    /\ WaitAlive
    /\ w_pc = "subscribe"
    /\ w_pc' = "brokerSubscribe"
    /\ UNCHANGED <<w_chan, w_sent, w_live, w_late, w_req, nvars>>
    /\ UNCHANGED <<pvars, bvars, tvars, svars>>

\* Transport.Subscribe (src/cdp/promise.go:253-256), called by MakeFuture
\* through Session.Subscribe (l.79): if the Transport's context is done the
\* result is nil, nil; MakePromise and the go statement follow (l.80-81)
WaitIsClosed ==
    /\ WaitAlive
    /\ w_pc = "subscribe"
    /\ IF t_cause # Nil
         THEN /\ w_pc' = "made"
              /\ w_chan' = NilChannel
         ELSE /\ w_pc' = "brokerSubscribe"
              /\ UNCHANGED w_chan
    /\ UNCHANGED <<w_sent, w_live, w_late, w_req, nvars>>
    /\ UNCHANGED <<pvars, bvars, tvars, svars>>

\* t.broker.Subscribe(sessionID) (src/cdp/promise.go:257, src/cdp/broker.go:62-69)
\* and the return of the mailbox with its unsubscribe function
WaitBrokerSubscribe ==
    /\ WaitAlive
    /\ w_pc = "brokerSubscribe"
    /\ b_made < MaxSubs
    /\ IF BrokerClosed
         THEN /\ b_panic' = PanicSubscribe
              /\ UNCHANGED <<b_sub, b_made, w_pc, w_chan>>
         ELSE /\ Len(b_sub) < SubCap
              /\ b_made' = b_made + 1
              /\ b_sub' = Append(b_sub, [sessionID |-> sessionID, channel |-> b_made + 1])
              /\ w_chan' = b_made + 1
              /\ w_pc' = "made"
              /\ UNCHANGED b_panic
    /\ UNCHANGED <<b_state, b_cancel, b_unsub, b_publish, b_value, b_calls,
                   m_buf, m_closed>>
    /\ UNCHANGED <<w_sent, w_live, w_late, w_req, nvars>>
    /\ UNCHANGED <<pvars, tvars, svars>>

\* deadlineFuture.Get (l.68-72): promise.Get with a context that has the
\* session's timeout as deadline
WaitGet ==
    /\ WaitAlive
    /\ w_pc = "made"
    /\ p_pc[Waiter] = "idle"
    /\ p_op' = [p_op EXCEPT ![Waiter] = [kind |-> "Get", arg |-> ErrPromiseCanceled]]
    /\ p_pc' = [p_pc EXCEPT ![Waiter] = "select"]
    /\ w_live' = (s_cause = Nil)
    /\ UNCHANGED <<p_once, p_fulfilled, p_value, p_err, p_onClose, p_ctx, p_ret>>
    /\ UNCHANGED <<w_pc, w_chan, w_sent, w_late, w_req, nvars>>
    /\ UNCHANGED <<bvars, tvars, svars>>

\* deadlineFuture.Cancel (l.74-76)
WaitCancel ==
    /\ WaitAlive
    /\ w_pc = "made"
    /\ PromiseCall(Canceler, [kind |-> "Cancel", arg |-> ErrPromiseCanceled])

\* the context of Get without the deadline of l.69: not the program's Get,
\* but the variant that shows what context.WithTimeout is needed for
WaitContextDoneNoDeadline ==
    /\ WaitAlive
    /\ s_cause # Nil
    /\ ContextDone(Waiter, s_cause)

\* the context of Get (l.69) becomes done: its parent, the session's
\* context, is done, or else its deadline elapses
WaitContextDone ==
    /\ WaitAlive
    /\ ContextDone(Waiter, IF s_cause # Nil THEN s_cause ELSE DeadlineExceeded)

\* a step inside promise.Get, Resolve, Reject or Cancel
\* (src/cdp/broker.go:180-208)
WaitPromiseStep(t) ==
    /\ WaitAlive
    /\ \/ GetSelect(t)
       \/ OnceDo(t)
       \/ Resolve(t)
       \/ Reject(t)
       \/ CloseFulfilled(t)
       \/ OnceDone(t)

\* u.onClose() (src/cdp/broker.go:198, 206) for the promise of MakeFuture:
\* the function Transport.Subscribe returned, which sends the mailbox on
\* b.unsub (src/cdp/promise.go:258-260); calling the nil function panics
WaitOnClose(t) ==
    /\ WaitAlive
    /\ p_pc[t] = "onClose"
    /\ IF w_chan = NilChannel
         THEN /\ p_pc' = [p_pc EXCEPT ![t] = "panic"]
              /\ UNCHANGED <<p_onClose, b_unsub>>
         ELSE /\ Len(b_unsub) < UnsubCap
              /\ b_unsub' = Append(b_unsub, w_chan)
              /\ p_onClose' = p_onClose + 1
              /\ p_pc' = [p_pc EXCEPT ![t] = "unlock"]
    /\ UNCHANGED <<p_once, p_fulfilled, p_value, p_err, p_op, p_ctx, p_ret>>
    /\ UNCHANGED <<b_state, b_panic, b_cancel, b_sub, b_publish, b_value, b_made,
                   b_calls, m_buf, m_closed>>
    /\ UNCHANGED <<tvars, svars, wvars>>

\* the goroutine settling with every message of the requested method whose
\* payload decodes: not the program's goroutine, but the variant that shows
\* what the predicate is needed for
WaitOutcomeNoFilter(value) ==
    IF value.Method # waitMethod THEN NoOp
    ELSE IF Unmarshal(value.Params).err # Nil
      THEN [kind |-> "Reject", arg |-> Unmarshal(value.Params).err]
    ELSE [kind |-> "Resolve", arg |-> Unmarshal(value.Params).result]

\* what the goroutine of MakeFuture does with a message (l.83-94): nothing,
\* Reject with the decode error, or Resolve with the decoded payload
WaitOutcome(value) ==
    IF value.Method # waitMethod THEN NoOp
    ELSE IF Unmarshal(value.Params).err # Nil
      THEN [kind |-> "Reject", arg |-> Unmarshal(value.Params).err]
    ELSE IF filter(Unmarshal(value.Params).result)
      THEN [kind |-> "Resolve", arg |-> Unmarshal(value.Params).result]
    ELSE NoOp

\* for value := range channel (l.82): the goroutine takes the next message
\* of its mailbox; ranging over the nil channel blocks forever
WaitReceive ==
    /\ WaitAlive
    /\ w_pc = "made"
    /\ w_chan # NilChannel
    /\ p_pc[Ranger] = "idle"
    /\ m_buf[w_chan] # <<>>
    /\ m_buf' = [m_buf EXCEPT ![w_chan] = Tail(@)]
    /\ LET o == WaitOutcome(Head(m_buf[w_chan]))
       IN  IF o = NoOp
             THEN UNCHANGED <<p_op, p_pc, w_late>>
             ELSE /\ p_op' = [p_op EXCEPT ![Ranger] = o]
                  /\ p_pc' = [p_pc EXCEPT ![Ranger] = "once"]
                  /\ w_late' = (s_cause # Nil)
    /\ UNCHANGED <<p_once, p_fulfilled, p_value, p_err, p_onClose, p_ctx, p_ret>>
    /\ UNCHANGED <<b_state, b_panic, b_cancel, b_sub, b_unsub, b_publish, b_value,
                   b_made, b_calls, m_closed>>
    /\ UNCHANGED <<w_pc, w_chan, w_sent, w_live, w_req, nvars>>
    /\ UNCHANGED <<tvars, svars>>

\* the mailbox is closed and drained: the range loop and the goroutine end
WaitClosed ==
    /\ WaitAlive
    /\ w_pc = "made"
    /\ w_chan # NilChannel
    /\ p_pc[Ranger] = "idle"
    /\ EndOfStream(w_chan)
    /\ p_pc' = [p_pc EXCEPT ![Ranger] = "ret"]
    /\ UNCHANGED <<p_once, p_fulfilled, p_value, p_err, p_onClose, p_op, p_ctx, p_ret>>
    /\ UNCHANGED <<bvars, tvars, svars, wvars>>

\* Transport.read (src/cdp/promise.go:288-296): ReadJSON yields an event
\* frame of the session and read hands it to broker.Publish
ReadWaitEvent(message) ==
    /\ WaitAlive
    /\ r_pc = "read"
    /\ w_sent < MaxWaitEvents
    /\ Len(b_publish) < PublishCap
    /\ b_publish' = Append(b_publish, message)
    /\ w_sent' = w_sent + 1
    /\ UNCHANGED <<b_state, b_panic, b_cancel, b_sub, b_unsub, b_value, b_made,
                   b_calls, m_buf, m_closed>>
    /\ UNCHANGED <<w_pc, w_chan, w_live, w_late, w_req, nvars>>
    /\ UNCHANGED <<pvars, tvars, svars>>

WNext ==
    \/ WaitIsClosed
    \/ WaitBrokerSubscribe
    \/ WaitGet
    \/ WaitCancel
    \/ WaitContextDone
    \/ \E t \in {Waiter, Ranger, Canceler} :
          \/ WaitPromiseStep(t)
          \/ WaitOnClose(t)
    \/ WaitReceive
    \/ WaitClosed
    \/ \E message \in WaitEvents : ReadWaitEvent(message)
    \/ WaitAlive /\ ReadError
    \/ WaitAlive /\ ReaderCancel
    \/ WaitAlive /\ GracefullyClose
    \/ RunCancel
    \/ RunSub
    \/ RunUnsub
    \/ RunPublish

\* the session after NewSession, before MakeFuture is called.  The steps
\* of the session's own goroutine are left out of WNext: they take from the
\* session's mailbox only, which no step of the wait reads.
InitWait ==
    PInit /\ SessionBrokerInit /\ TransportInit /\ SessionCallersInit /\ SInit
        /\ WInit

SpecWait == InitWait /\ [][WNext]_vars

\* the event frames the goroutine of MakeFuture skips
QuietEvents == {message \in WaitEvents : WaitOutcome(message) = NoOp}

\* an event-wait that is left to its deadline: the connection stays up, no
\* event settles the wait and nobody calls Cancel
QuietNext ==
    \/ WaitIsClosed
    \/ WaitBrokerSubscribe
    \/ WaitGet
    \/ WaitContextDone
    \/ WaitPromiseStep(Waiter)
    \/ WaitOnClose(Waiter)
    \/ WaitReceive
    \/ WaitClosed
    \/ \E message \in QuietEvents : ReadWaitEvent(message)
    \/ RunSub
    \/ RunUnsub
    \/ RunPublish

\* the timer of context.WithTimeout (l.69) fires, and the goroutine that
\* called Get is scheduled
SpecQuietWait ==
    /\ InitWait /\ [][QuietNext]_vars
    /\ WF_vars(WaitContextDone)
    /\ WF_vars(WaitAlive /\ GetSelect(Waiter))

\* ---- decoding the result of a Call (src/session.go:118-121) ----

\* the Result payloads a response can carry: a JSON text that decodes into
\* the caller's shape, and a truncated one
Results == {"1", "{"}

\* Session.Call after Get returned without an error, with recv # nil
\* (l.118-120): return json.Unmarshal(value.Result, recv).  The Transport
\* passes Result through unread, so the payload of the response is drawn
\* here, where the program first looks at it.
SessionCallDecode(c, result) ==
    /\ c_pc[c] = "ret"
    /\ c_ret[c].err = Nil
    /\ c_ret' = [c_ret EXCEPT ![c].err = Unmarshal(result).err]
    /\ c_pc' = [c_pc EXCEPT ![c] = "done"]
    /\ UNCHANGED <<t_cause, t_mutex, t_seq, t_pending, t_wire, t_assigned,
                   r_pc, r_frame, r_err, c_seq, c_promise>>
    /\ UNCHANGED <<bvars, notT>>

\* ---- CaptureNetworkRequest (src/session.go:367-401) ----

responseMethod == "Network.responseReceived"

\* the event frames of the session that the remote side sends: the payload
\* is the JSON text of the request id, or a truncated text
CaptureEvents ==
    [SessionID : {sessionID}, Method : {otherMethod, responseMethod},
     Params : {"{", "1", "2"}]

\* the predicate handed to CaptureNetworkRequest
condition(request) == request >= 2

\* the goroutine of CaptureNetworkRequest (l.373-399, rejectOnLoadingFailed
\* false) takes the next message of its mailbox.  mustUnmarshal
\* (src/session.go:43-50) panics when the payload does not decode, and
\* nothing recovers: the process dies.  Otherwise requestWillBeSent records
\* the id of a request that meets the condition, and responseReceived
\* resolves when its id is the recorded one.
CaptureReceive ==
    /\ WaitAlive
    /\ w_pc = "made"
    /\ w_chan # NilChannel
    /\ p_pc[Ranger] = "idle"
    /\ m_buf[w_chan] # <<>>
    /\ m_buf' = [m_buf EXCEPT ![w_chan] = Tail(@)]
    /\ LET value == Head(m_buf[w_chan])
           u == Unmarshal(value.Params)
       IN  IF value.Method \notin {otherMethod, responseMethod}
             THEN UNCHANGED <<p_op, p_pc, w_req>>
           ELSE IF u.err # Nil
             THEN /\ p_pc' = [p_pc EXCEPT ![Ranger] = "panic"]
                  /\ UNCHANGED <<p_op, w_req>>
           ELSE IF value.Method = otherMethod
             THEN /\ w_req' = IF condition(u.result) THEN u.result ELSE w_req
                  /\ UNCHANGED <<p_op, p_pc>>
           ELSE IF u.result = w_req
             THEN /\ p_op' = [p_op EXCEPT ![Ranger] =
                                 [kind |-> "Resolve", arg |-> u.result]]
                  /\ p_pc' = [p_pc EXCEPT ![Ranger] = "once"]
                  /\ UNCHANGED w_req
           ELSE UNCHANGED <<p_op, p_pc, w_req>>
    /\ UNCHANGED <<p_once, p_fulfilled, p_value, p_err, p_onClose, p_ctx, p_ret>>
    /\ UNCHANGED <<b_state, b_panic, b_cancel, b_sub, b_unsub, b_publish, b_value,
                   b_made, b_calls, m_closed>>
    /\ UNCHANGED <<w_pc, w_chan, w_sent, w_live, w_late, nvars>>
    /\ UNCHANGED <<tvars, svars>>

\* Session.Call of goroutine c has returned
Returned(c) == c_pc[c] = "done" \/ (c_pc[c] = "ret" /\ c_ret[c].err # Nil)

\* The way the library itself uses an event-wait (future :=
\* s.CaptureNetworkRequest(...); s.Call(...); future.Get()): one goroutine
\* makes the future, makes its calls one after the other and then waits,
\* while the goroutine of CaptureNetworkRequest, the reader and the broker
\* run beside it.  The connection stays up: whatever ends the process, the
\* Transport or the session here, a decode failure has caused it.
DecodeNext ==
    \/ \E c \in SessionCalls :
          /\ WaitAlive
          /\ w_pc = "made" /\ p_pc[Waiter] = "idle"
          /\ \A d \in 1 .. c - 1 : Returned(d)
          /\ \/ SessionCall(c)
             \/ Send(c)
             \/ SendLock(c)
             \/ SendStore(c)
             \/ SendWrite(c)
             \/ SendFailed(c)
             \/ SendReject(c)
             \/ Get(c)
             \/ GetCancel(c)
             \/ \E result \in Results : SessionCallDecode(c, result)
    \/ \E f \in t_wire, e \in {Nil, ErrRPC} : WaitAlive /\ ReadResponse(f, e)
    \/ WaitAlive /\ ReadLookup
    \/ WaitAlive /\ ReadSettle
    \/ WaitIsClosed
    \/ WaitBrokerSubscribe
    \/ (\A c \in SessionCalls : Returned(c)) /\ WaitGet
    \/ WaitContextDone
    \/ \E t \in {Waiter, Ranger} :
          \/ WaitPromiseStep(t)
          \/ WaitOnClose(t)
    \/ CaptureReceive
    \/ WaitClosed
    \/ \E message \in CaptureEvents :
          w_sent < MaxDecodeEvents /\ ReadWaitEvent(message)
    \/ RunSub
    \/ RunUnsub
    \/ RunPublish

SpecDecode == InitWait /\ [][DecodeNext]_vars

\* ---- lifecycle events of this and of other sessions and targets ----

otherTargetID == "T2"

\* the lifecycle events the remote side sends on the browser-level session:
\* each names this session or target, or another one
LifecycleEvents ==
    [SessionID : {""}, Method : {"Target.detachedFromTarget"},
     Params : {sessionID, siblingID}]
    \cup [SessionID : {""},
          Method : {"Target.targetDestroyed", "Target.targetCrashed"},
          Params : {targetID, otherTargetID}]

\* the events among them that name neither this session nor this target
ForeignEvents ==
    {message \in LifecycleEvents : message.Params \in {siblingID, otherTargetID}}

\* a session that receives lifecycle events on a connection that stays up
LifecycleNext ==
    \/ \E message \in LifecycleEvents : ReadWaitEvent(message)
    \/ RunUnsub
    \/ RunPublish
    \/ HandleMessage
    \/ HandleUnsubscribe
    \/ HandleCancel
    \/ \E c \in SessionCalls : SessionCall(c)

SpecLifecycle == InitSession /\ [][LifecycleNext]_vars

\* ---- NewSession (src/session.go:128-176) ----

\* the calls NewSession makes one after the other: the first is
\* Target.attachToTarget (l.144-147), the others are the enable calls
\* (l.160-174)
attachCall == 1
EnableCalls == Calls \ {attachCall}

\* call c of NewSession has returned, without an error or with one
CallOk(c) == c_pc[c] = "ret" /\ c_ret[c].err = Nil
CallFailed(c) == c_pc[c] = "ret" /\ c_ret[c].err # Nil

\* NewSession has returned nil, err (l.148-150, l.160-174)
NewSessionFailed == \E c \in Calls : CallFailed(c)

\* the goroutine of l.153-158 has been started
HandleStarted == w_pc = "made"

\* NewSession on a connection that stays up: attach; if that fails return
\* the error; else Subscribe, start the goroutine of handle, and make the
\* enable calls, returning the error of the first that fails
NewSessionNext ==
    \/ \E c \in Calls :
          /\ IF c = attachCall THEN TRUE
                ELSE HandleStarted /\ \A d \in 1 .. c - 1 : CallOk(d)
          /\ \/ SessionCall(c)
             \/ Send(c)
             \/ SendLock(c)
             \/ SendStore(c)
             \/ SendWrite(c)
             \/ SendFailed(c)
             \/ SendReject(c)
             \/ Get(c)
             \/ GetCancel(c)
    \/ \E f \in t_wire, e \in {Nil, ErrRPC} : ReadResponse(f, e)
    \/ ReadLookup
    \/ ReadSettle
    \/ CallOk(attachCall) /\ WaitIsClosed
    \/ WaitBrokerSubscribe
    \/ \E message \in LifecycleEvents : ReadWaitEvent(message)
    \/ RunSub
    \/ RunUnsub
    \/ RunPublish
    \/ HandleStarted /\ HandleMessage
    \/ HandleUnsubscribe
    \/ HandleCancel

\* the Transport after Dial, NewSession about to make its first call
InitNewSession ==
    PInit /\ BInit /\ TransportInit /\ SessionCallersInit /\ SInit /\ WInit

SpecNewSession == InitNewSession /\ [][NewSessionNext]_vars

\* ---- Session.NetworkIdle (src/session.go:405-449) ----

ErrNetworkIdleReachedTimeout == "session network idle reached timeout"
failedMethod == "Network.loadingFailed"
\* the panic of mustUnmarshal (src/session.go:43-50), on its way up through
\* the deferred function of NetworkIdle
PanicDecode == "panic: unexpected end of JSON input"

\* the event frames of the session that the remote side sends while
\* NetworkIdle runs: the three events it looks at, whose payload is the
\* JSON text of the request id or a truncated text, and one it skips
IdleEvents ==
    [SessionID : {sessionID},
     Method : {otherMethod, responseMethod, failedMethod},
     Params : {"{", "1", "2"}]
    \cup [SessionID : {sessionID}, Method : {waitMethod}, Params : {"1"}]

IdleAlive == WaitAlive /\ n_pc # "panic"

\* l.406-419: after Subscribe has returned, the timer is started, the
\* deferred function is registered and init() has run
IdleStart ==
    /\ IdleAlive
    /\ w_pc = "made"
    /\ n_pc = "subscribe"
    /\ n_pc' = "select"
    /\ UNCHANGED <<n_queue, n_timer, n_quiet, n_ret, n_unsubs, n_seen>>
    /\ UNCHANGED <<w_pc, w_chan, w_sent, w_live, w_late, w_req>>
    /\ UNCHANGED <<pvars, bvars, tvars, svars>>

\* the timer of l.410 fires: timer.C becomes ready
TimerFires ==
    /\ IdleAlive
    /\ n_pc = "select"
    /\ ~n_timer
    /\ n_timer' = TRUE
    /\ UNCHANGED <<n_pc, n_queue, n_quiet, n_ret, n_unsubs, n_seen>>
    /\ UNCHANGED <<w_pc, w_chan, w_sent, w_live, w_late, w_req>>
    /\ UNCHANGED <<pvars, bvars, tvars, svars>>

\* time passes: more than threshold since last (l.444)
ThresholdElapses ==
    /\ IdleAlive
    /\ n_pc = "select"
    /\ ~n_quiet
    /\ n_quiet' = TRUE
    /\ UNCHANGED <<n_pc, n_queue, n_timer, n_ret, n_unsubs, n_seen>>
    /\ UNCHANGED <<w_pc, w_chan, w_sent, w_live, w_late, w_req>>
    /\ UNCHANGED <<pvars, bvars, tvars, svars>>

\* the switch without the assignment of l.427: not the program's
\* NetworkIdle, but the variant that shows what queue is needed for
IdleQueueForget(queue, method, id) ==
    IF method = otherMethod THEN queue ELSE queue \ {id}

\* what the switch of l.423-440 does to queue with a decoded message
IdleQueue(queue, method, id) ==
    IF method = otherMethod THEN queue \cup {id} ELSE queue \ {id}

\* case value := <-channel (l.422-440) with a message in the mailbox: the
\* three methods are decoded with mustUnmarshal, which panics when the
\* payload does not decode (the deferred function runs on the way up);
\* requestWillBeSent adds the id to queue, responseReceived and
\* loadingFailed delete it, and each of the three sets last to now.  A
\* receive from the closed, empty mailbox yields the zero Message, which no
\* case matches: that iteration changes nothing.
IdleReceive ==
    /\ IdleAlive
    /\ n_pc = "select"
    /\ w_chan # NilChannel
    /\ m_buf[w_chan] # <<>>
    /\ m_buf' = [m_buf EXCEPT ![w_chan] = Tail(@)]
    /\ LET value == Head(m_buf[w_chan])
           u == Unmarshal(value.Params)
       IN  IF value.Method \notin {otherMethod, responseMethod, failedMethod}
             THEN UNCHANGED <<n_pc, n_queue, n_quiet, n_ret, n_seen>>
           ELSE IF u.err # Nil
             THEN /\ n_pc' = "defer"
                  /\ n_ret' = PanicDecode
                  /\ UNCHANGED <<n_queue, n_quiet, n_seen>>
           ELSE /\ n_queue' = IdleQueue(n_queue, value.Method, u.result)
                /\ n_quiet' = FALSE
                /\ n_seen' = Append(n_seen, [Method |-> value.Method, id |-> u.result])
                /\ UNCHANGED <<n_pc, n_ret>>
    /\ UNCHANGED <<n_timer, n_unsubs>>
    /\ UNCHANGED <<b_state, b_panic, b_cancel, b_sub, b_unsub, b_publish, b_value,
                   b_made, b_calls, m_closed>>
    /\ UNCHANGED <<w_pc, w_chan, w_sent, w_live, w_late, w_req>>
    /\ UNCHANGED <<pvars, tvars, svars>>

\* case <-timer.C (l.441-442): return ErrNetworkIdleReachedTimeout
IdleTimeout ==
    /\ IdleAlive
    /\ n_pc = "select"
    /\ n_timer
    /\ n_ret' = ErrNetworkIdleReachedTimeout
    /\ n_pc' = "defer"
    /\ UNCHANGED <<n_queue, n_timer, n_quiet, n_unsubs, n_seen>>
    /\ UNCHANGED <<w_pc, w_chan, w_sent, w_live, w_late, w_req>>
    /\ UNCHANGED <<pvars, bvars, tvars, svars>>

\* no case of the select is ready: a receive from the nil mailbox never is,
\* one from a closed mailbox always is
IdleNoneReady ==
    /\ ~n_timer
    /\ IF w_chan = NilChannel THEN TRUE
         ELSE m_buf[w_chan] = <<>> /\ ~m_closed[w_chan]

\* default (l.443-446), taken when no other case is ready: return nil when
\* the threshold has passed since last and queue is empty
IdleDefault ==
    /\ IdleAlive
    /\ n_pc = "select"
    /\ IdleNoneReady
    /\ n_quiet /\ n_queue = {}
    /\ n_ret' = Nil
    /\ n_pc' = "defer"
    /\ UNCHANGED <<n_queue, n_timer, n_quiet, n_unsubs, n_seen>>
    /\ UNCHANGED <<w_pc, w_chan, w_sent, w_live, w_late, w_req>>
    /\ UNCHANGED <<pvars, bvars, tvars, svars>>

\* the deferred function (l.414-418): cancel() is the function Subscribe
\* returned (src/cdp/promise.go:258-260, broker.Unsubscribe of the mailbox,
\* a send on b.unsub), or nil when the Transport was closed (l.254-256):
\* the call of a nil function panics.  After it NetworkIdle returns, or the
\* panic of mustUnmarshal goes on.
IdleCancel ==
    /\ IdleAlive
    /\ n_pc = "defer"
    /\ IF w_chan = NilChannel
         THEN /\ n_pc' = "panic"
              /\ UNCHANGED <<b_unsub, n_unsubs>>
         ELSE /\ Len(b_unsub) < UnsubCap
              /\ b_unsub' = Append(b_unsub, w_chan)
              /\ n_unsubs' = n_unsubs + 1
              /\ n_pc' = IF n_ret = PanicDecode THEN "panic" ELSE "ret"
    /\ UNCHANGED <<n_queue, n_timer, n_quiet, n_ret, n_seen>>
    /\ UNCHANGED <<b_state, b_panic, b_cancel, b_sub, b_publish, b_value, b_made,
                   b_calls, m_buf, m_closed>>
    /\ UNCHANGED <<w_pc, w_chan, w_sent, w_live, w_late, w_req>>
    /\ UNCHANGED <<pvars, tvars, svars>>

\* one call of NetworkIdle, the remote side sending events of the session,
\* and the Transport, which may terminate at any moment
IdleNext ==
    \/ WaitIsClosed
    \/ WaitBrokerSubscribe
    \/ IdleStart
    \/ TimerFires
    \/ ThresholdElapses
    \/ IdleReceive
    \/ IdleTimeout
    \/ IdleDefault
    \/ IdleCancel
    \/ \E message \in IdleEvents : IdleAlive /\ ReadWaitEvent(message)
    \/ IdleAlive /\ ReadError
    \/ IdleAlive /\ ReaderCancel
    \/ IdleAlive /\ GracefullyClose
    \/ RunCancel
    \/ RunSub
    \/ RunUnsub
    \/ RunPublish

SpecIdle == InitWait /\ [][IdleNext]_vars

\* ---- the frame table and Frame.evaluate ----

ErrExecutionContextDestroyed == "execution context destroyed"

\* the frames of the page: the main frame, whose id is the target's
\* (l.138-141), and a child frame; the unique ids of execution contexts
childFrame == "F2"
FrameIds == {targetID, childFrame}
ContextIds == {"u1", "u2"}

\* the frame events of the session that the remote side sends, and the
\* event that ends the session
FrameEvents ==
    [SessionID : {sessionID}, Method : {createdMethod},
     Params : [frameId : FrameIds, uniqueId : ContextIds]]
    \cup [SessionID : {sessionID}, Method : {detachedMethod},
          Params : [frameId : FrameIds]]
    \cup [SessionID : {""}, Method : {"Target.targetDestroyed"}, Params : {targetID}]

\* Frame.executionContextID (src/page.go:36-41)
executionContextID(id) ==
    IF Load(h_frames, id).ok THEN Load(h_frames, id).value ELSE ""

\* the frame a goroutine evaluates in: the first one in the main frame, the
\* others in the child frame
EvalFrame(c) == IF c = 1 THEN targetID ELSE childFrame

\* Frame.evaluate (src/runtime.go:146-150): uid = f.executionContextID();
\* with an empty uid it returns ErrExecutionContextDestroyed, else it goes
\* on to runtime.Evaluate with the uid it has read
evaluate(c) ==
    /\ c_pc[c] = "idle"
    /\ IF executionContextID(EvalFrame(c)) = ""
         THEN /\ c_ret' = [c_ret EXCEPT ![c] =
                             [value |-> NoValue, err |-> ErrExecutionContextDestroyed]]
              /\ c_pc' = [c_pc EXCEPT ![c] = "ret"]
              /\ UNCHANGED f_uid
         ELSE /\ f_uid' = [f_uid EXCEPT ![c] = executionContextID(EvalFrame(c))]
              /\ c_pc' = [c_pc EXCEPT ![c] = "evaluate"]
              /\ UNCHANGED c_ret
    /\ UNCHANGED <<t_cause, t_mutex, t_seq, t_pending, t_wire, t_assigned,
                   r_pc, r_frame, r_err, c_seq, c_promise>>
    /\ UNCHANGED <<s_cause, s2_cause, h_pc, h_err, e_sent, h_frames, h_seen>>
    /\ UNCHANGED <<pvars, bvars, wvars>>

\* runtime.Evaluate (src/runtime.go:151) reaches Session.Call (l.98-104),
\* later than the read of the frame table: handle may have deleted or
\* replaced the frame's entry and canceled the session in between.  If the
\* context is done Call returns its cause, else it goes on to
\* s.transport.Send with the uid read before
runtimeEvaluate(c) ==
    /\ c_pc[c] = "evaluate"
    /\ IF s_cause # Nil
         THEN /\ c_ret' = [c_ret EXCEPT ![c] = [value |-> NoValue, err |-> s_cause]]
              /\ c_pc' = [c_pc EXCEPT ![c] = "ret"]
         ELSE /\ c_pc' = [c_pc EXCEPT ![c] = "send"]
              /\ UNCHANGED c_ret
    /\ UNCHANGED <<t_cause, t_mutex, t_seq, t_pending, t_wire, t_assigned,
                   r_pc, r_frame, r_err, c_seq, c_promise>>
    /\ UNCHANGED <<bvars, notT>>

\* a session whose goroutines evaluate while frame events arrive, on a
\* connection that stays up
FramesNext ==
    \/ \E c \in SessionCalls :
          \/ evaluate(c)
          \/ runtimeEvaluate(c)
          \/ Send(c)
          \/ SendLock(c)
          \/ SendStore(c)
          \/ SendWrite(c)
          \/ SendFailed(c)
          \/ SendReject(c)
          \/ Get(c)
          \/ GetCancel(c)
    \/ \E f \in t_wire, e \in {Nil, ErrRPC} : ReadResponse(f, e)
    \/ \E message \in FrameEvents : ReadWaitEvent(message)
    \/ ReadLookup
    \/ ReadSettle
    \/ RunUnsub
    \/ RunPublish
    \/ HandleMessage
    \/ HandleUnsubscribe
    \/ HandleCancel

SpecFrames == InitSession /\ [][FramesNext]_vars

(***************************************************************************)
(* Claims about the event-wait                                             *)
(***************************************************************************)
\* C12: Transport.Subscribe called when the Transport's context is done
\* returns the nil mailbox at once: the call is never blocked, its step
\* sends nothing to the broker and makes no mailbox, and no mailbox is ever
\* registered for it.
C12_SubscribeAfterTermination ==
    /\ [][(w_pc = "subscribe" /\ w_pc' # "subscribe" /\ t_cause # Nil) =>
              /\ w_pc' = "made" /\ w_chan' = NilChannel
              /\ b_sub' = b_sub /\ b_made' = b_made /\ b_value' = b_value]_vars
    /\ []((w_pc = "subscribe" /\ t_cause # Nil /\ WaitAlive) => ENABLED WaitIsClosed)
    /\ []((w_pc = "made" /\ w_chan = NilChannel) =>
              /\ t_cause # Nil
              /\ b_made = 1 /\ b_sub = <<>> /\ Registered \subseteq {channel})

\* C12 happens: Subscribe was called on the terminated Transport and has
\* returned the nil mailbox
C12_Witness ==
    /\ w_pc = "made" /\ w_chan = NilChannel
    /\ t_cause = ErrRead /\ r_pc = "done"

\* C13: a Get of an event-wait that is pending when the session's context
\* is canceled returns the context's cause.  Get was called while the
\* context was live, its deadline has not elapsed, and its promise was
\* unsettled at the cancellation, being resolved by a message the goroutine
\* took from the mailbox afterwards; yet the error Get returns is the cause.
C13_PendingFailsWithCause ==
    (/\ w_live /\ w_late
     /\ p_value # NoValue
     /\ p_ctx[Waiter] # DeadlineExceeded
     /\ p_ret[Waiter] # NoRet) => p_ret[Waiter].err = s_cause

\* the step in which the goroutine of MakeFuture takes a message
TakeStep ==
    /\ w_chan # NilChannel
    /\ m_buf[w_chan] # <<>>
    /\ m_buf'[w_chan] = Tail(m_buf[w_chan])

\* C19: the goroutine of an event-wait takes the messages of its mailbox in
\* the order of their delivery, and only as long as it has settled with
\* none.  A message of another method, or of the requested method with a
\* payload the predicate refuses, is skipped: the promise is untouched.  A
\* message of the requested method whose payload does not decode makes it
\* call Reject with the decode error, and one whose payload satisfies the
\* predicate makes it call Resolve with the decoded payload.  A value the
\* promise holds is the payload of that message.
C19_FirstMatch ==
    /\ [][TakeStep =>
            LET value == Head(m_buf[w_chan])
                decoded == Unmarshal(value.Params)
                skipped == /\ p_op' = p_op /\ p_pc' = p_pc
                           /\ p_once' = p_once /\ p_fulfilled' = p_fulfilled
                           /\ p_value' = p_value /\ p_err' = p_err
            IN  /\ p_op[Ranger] = NoOp
                /\ value.Method # waitMethod => skipped
                /\ (value.Method = waitMethod /\ decoded.err = Nil
                        /\ ~filter(decoded.result)) => skipped
                /\ (value.Method = waitMethod /\ decoded.err # Nil) =>
                       /\ p_op'[Ranger] = [kind |-> "Reject", arg |-> decoded.err]
                       /\ p_pc'[Ranger] = "once"
                /\ (value.Method = waitMethod /\ decoded.err = Nil
                        /\ filter(decoded.result)) =>
                       /\ p_op'[Ranger] = [kind |-> "Resolve", arg |-> decoded.result]
                       /\ p_pc'[Ranger] = "once"]_vars
    /\ [](p_value # NoValue =>
             /\ p_op[Ranger] = [kind |-> "Resolve", arg |-> p_value]
             /\ filter(p_value)
             /\ p_err = Nil)
    /\ [](p_err = ErrDecode => p_op[Ranger] = [kind |-> "Reject", arg |-> ErrDecode])

\* C19 happens: two matching events were delivered, the wait is resolved
\* with the payload of the first and the second is still in the mailbox
C19_Witness ==
    /\ w_chan # NilChannel
    /\ p_fulfilled /\ p_value = 3 /\ p_err = Nil
    /\ m_buf[w_chan] = <<[SessionID |-> sessionID, Method |-> waitMethod,
                          Params |-> "2"]>>

\* C20: once the future of an event-wait has settled and its hook has
\* returned, and the broker has taken everything sent to it, the mailbox of
\* the wait is not registered.
C20_NoMailboxLeft ==
    (/\ p_once = "done"
     /\ w_chan # NilChannel
     /\ b_sub = <<>> /\ b_unsub = <<>>) => w_chan \notin Registered

\* the wait is left to its deadline: the session is active, the goroutine
\* of MakeFuture has found no message to settle with, nobody called Cancel
WaitUndisturbed ==
    /\ s_cause = Nil
    /\ p_op[Ranger] = NoOp
    /\ p_op[Canceler] = NoOp

\* C29: a decode failure is local.  In a session whose connection stays up,
\* with calls and an event-wait under way, whatever payload fails to decode,
\* the goroutines of the process run on and the contexts of the Transport
\* and of the session are not canceled.
C29_DecodeFailureLocal ==
    /\ \A t \in PThreads : p_pc[t] # "panic"
    /\ t_cause = Nil /\ s_cause = Nil

\* C34: an event-wait whose Subscribe returned the nil mailbox and the nil
\* unsubscribe function does not crash: none of its goroutines panics in
\* Get, Cancel, Resolve or Reject.
C34_NoMailboxNoCrash ==
    (w_pc = "made" /\ w_chan = NilChannel) =>
        \A t \in PThreads : p_pc[t] # "panic"

\* C35: Transport.Subscribe never sends on the broker's sub channel after
\* the broker's shutdown has closed it, also when the call overlaps the
\* termination of the Transport.
C35_SubscribeNeverPanics == b_panic # PanicSubscribe

\* C21: a Get of an event-wait on an active session, with no message to
\* settle it and no Cancel, is never blocked for good: as long as it waits,
\* its deadline can elapse or has elapsed and lets the select return, and
\* the select does return.  It returns only once the deadline has elapsed,
\* and what Get returns is the deadline-exceeded error.
C21_WaitTimesOut ==
    /\ (p_pc[Waiter] = "select") ~> (p_pc[Waiter] # "select" \/ ~WaitUndisturbed)
    /\ []((p_pc[Waiter] = "select" /\ WaitUndisturbed) =>
             /\ WaitAlive
             /\ ~p_fulfilled
             /\ ENABLED (WaitContextDone \/ GetSelect(Waiter)))
    /\ [][(p_pc[Waiter] = "select" /\ p_pc'[Waiter] # "select" /\ WaitUndisturbed') =>
             /\ p_ctx[Waiter] = DeadlineExceeded
             /\ p_ret'[Waiter] = [via |-> "parent", value |-> NoValue,
                                  err |-> DeadlineExceeded]]_vars
    /\ []((p_ret[Waiter] # NoRet /\ WaitUndisturbed) =>
             p_ret[Waiter].err = DeadlineExceeded)

\* C21 happens: events that do not match were delivered and skipped, the
\* session is active, and Get has returned the deadline-exceeded error
C21_Witness ==
    /\ WaitUndisturbed
    /\ w_chan # NilChannel /\ w_chan \in Registered
    /\ w_sent = MaxWaitEvents /\ b_publish = <<>> /\ m_buf[w_chan] = <<>>
    /\ p_ret[Waiter] = [via |-> "parent", value |-> NoValue, err |-> DeadlineExceeded]

\* the Transport after Dial with its callers; the promise, the broker and
\* the session of the other specifications are at rest
InitTransport == PInit /\ BInit /\ TInit /\ SInit /\ WInit

SpecTransport == InitTransport /\ [][TNext]_vars

SpecStray == InitTransport /\ [][StrayNext]_vars

(***************************************************************************)
(* Claims about the Transport                                              *)
(***************************************************************************)
\* the caller has left the select of Get
Left(c) == c_pc[c] \in {"cancel", "ret"}

\* C27: a response that arrives after its caller has left Get is looked up
\* like any other: its entry is still in the pending map, so it is not an
\* unexpected response; the entry is removed, and settling changes neither
\* what the caller has returned, nor the Transport's context, nor any other
\* caller's promise or pending entry, and the reader reads on.
C27_LateSettlement ==
    /\ [][(/\ r_pc = "lookup" /\ r_pc' # "lookup"
           /\ r_frame.re # NoCall /\ Left(r_frame.re)) =>
             /\ r_pc' = "settle" /\ r_err' = r_err
             /\ r_frame'.to = r_frame.re
             /\ t_pending' = PendingDelete(r_frame.ID)
             /\ c_promise' = c_promise /\ c_ret' = c_ret]_vars
    /\ [][(r_pc = "settle" /\ r_pc' # "settle" /\ Left(r_frame.to)) =>
             /\ r_pc' = "read" /\ r_err' = r_err
             /\ c_ret' = c_ret /\ c_pc' = c_pc
             /\ t_cause' = t_cause /\ t_pending' = t_pending
             /\ \A c \in Calls \ {r_frame.to} : c_promise'[c] = c_promise[c]]_vars

\* C27 happens: a caller has returned the deadline error and canceled its
\* promise, the response to its request has been read and dropped since,
\* and the Transport is alive and reading
C27_Witness ==
    /\ t_cause = Nil /\ r_pc = "read" /\ r_err = Nil
    /\ \E c \in Calls :
          /\ c_pc[c] = "ret" /\ c_ret[c].err = DeadlineExceeded
          /\ c_promise[c].err = ErrPromiseCanceled
          /\ c_seq[c] # NoCall
          /\ c_seq[c] \notin DOMAIN t_pending
          /\ \A f \in t_wire : f.call # c

\* C32: once the reader has torn the Transport down, every Send that has
\* returned its future has a settled promise and no entry in the pending
\* map, also when the Send overlapped the teardown.
C32_SettledAfterTeardown ==
    r_pc = "done" =>
        \A c \in Calls :
            c_pc[c] \in {"get", "cancel", "ret"} =>
                /\ c_promise[c].state # "pending"
                /\ c_seq[c] \notin DOMAIN t_pending

\* C38: broker.Cancel is invoked at most once: the step that invokes it,
\* gracefullyClose, finds the broker not canceled yet, and neither Close nor
\* the cancellation of the parent context cancels the broker.  The broker is
\* canceled only when the reader has left its loop, so no message is handed
\* to Publish after that and Publish never meets the closed channel.
C38_CancelOnce ==
    /\ [][(r_pc = "gracefullyClose" /\ r_pc' = "done") =>
              (~b_cancel /\ b_cancel')]_vars
    /\ [][(b_cancel' # b_cancel) =>
              (r_pc = "gracefullyClose" /\ r_pc' = "done")]_vars
    /\ [][r_pc = "done" => r_pc' = "done"]_vars
    /\ [](b_cancel => r_pc = "done")
    /\ [][b_cancel => Len(b_publish') <= Len(b_publish)]_vars
    /\ [](b_panic # PanicPublish)

\* C38 happens: Close has gone through and the reader has met the read
\* error of the closed connection; the broker was canceled, after the
\* reader had published
C38_Witness ==
    /\ c_pc[Closer] = "closed"
    /\ r_pc = "done" /\ r_err = ErrRead
    /\ b_cancel /\ e_sent > 0

\* C26: when read looks up the id of a frame that is no event and the
\* pending map has no entry for it (a frame with id 0 and no message, a
\* second response for an answered id, an id never used), read returns the
\* unexpected-response error and settles nothing; the reader then reads no
\* more: it cancels the Transport's context and tears the Transport down.
C26_UnexpectedResponse ==
    /\ [][(r_pc = "lookup" /\ r_pc' # "lookup"
              /\ r_frame.ID \notin DOMAIN t_pending) =>
             /\ r_err' = ErrUnexpected /\ r_pc' = "cancel"
             /\ c_promise' = c_promise /\ t_pending' = t_pending]_vars
    /\ [][r_err # Nil =>
             /\ r_err' = r_err
             /\ r_pc' \in {"cancel", "gracefullyClose", "done"}]_vars
    /\ [](r_pc = "cancel" => ENABLED ReaderCancel)
    /\ [](r_pc \in {"gracefullyClose", "done"} => t_cause = r_err)
    /\ [](r_pc = "done" => b_cancel)

\* C26 happens: a call was answered and has returned its result, a second
\* response for its id arrived, and the Transport is torn down with the
\* unexpected-response error
C26_Witness ==
    /\ r_pc = "done" /\ r_err = ErrUnexpected /\ t_cause = ErrUnexpected
    /\ \E c \in Calls :
          /\ c_promise[c].state = "resolved"
          /\ c_pc[c] = "ret" /\ c_ret[c].err = Nil
          /\ r_frame.ID = c_seq[c]


\* C1: a future of Send is settled by a response only if that response
\* carries the id Send assigned to the future's request and answers that
\* very request, whatever the order of the responses.
C1_OwnResponse ==
    \A c \in Calls :
        /\ c_promise[c].state = "resolved" =>
              (c_promise[c].value = c_seq[c] /\ c_promise[c].re = c)
        /\ c_promise[c].re # NoCall => c_promise[c].re = c

\* C1 witness: two requests are outstanding, the later one was answered
\* first, and its caller got the response that carries its id.
C1_Witness ==
    \E c, d \in Calls :
        /\ c_seq[c] # 0 /\ c_seq[c] < c_seq[d]
        /\ [ID |-> c_seq[c], call |-> c] \in t_wire
        /\ c_promise[c].state = "pending"
        /\ c_promise[d].state = "resolved"
        /\ c_pc[d] = "ret" /\ c_ret[d] = [value |-> c_seq[d], err |-> Nil]

\* C2: the ids Send assigns start at 1 and grow strictly in the order of
\* assignment, so no two Send calls get the same id.
C2_SequenceIds ==
    /\ t_assigned # <<>> => t_assigned[1] = 1
    /\ \A i, j \in DOMAIN t_assigned : i < j => t_assigned[i] < t_assigned[j]
    /\ \A c, d \in Calls : (c # d /\ c_seq[c] # 0 /\ c_seq[d] # 0) => c_seq[c] # c_seq[d]

\* C2 witness: every caller has called Send, the calls overlapped, and each
\* has its id.
C2_Witness ==
    /\ Len(t_assigned) = MaxCalls
    /\ \A c \in Calls : c_pc[c] = "write"

\* the step in which the reader goroutine finishes gracefullyClose
Teardown == r_pc = "gracefullyClose" /\ r_pc' = "done"

\* C11 (as the code has it): a read error ends the reader, which cancels the
\* Transport's context and tears the Transport down.  The cause recorded is
\* the read error unless the context was canceled before (then that earlier
\* cause stays); the teardown cancels the broker, rejects every promise that
\* is pending in the map with the recorded cause and leaves the map empty.
C11_ReadErrorTeardown ==
    /\ [](r_pc \in {"gracefullyClose", "done"} =>
             /\ r_err # Nil
             /\ t_cause \in {r_err, Canceled})
    /\ [][Teardown =>
             /\ b_cancel'
             /\ t_pending' = <<>>
             /\ \A k \in DOMAIN t_pending :
                   LET c == t_pending[k]
                   IN  /\ c_promise'[c].state # "pending"
                       /\ c_promise[c].state = "pending" =>
                             /\ c_promise'[c].state = "rejected"
                             /\ c_promise'[c].err = t_cause]_vars

\* C11 witness: a read error tore the Transport down, the cause is the read
\* error, and a caller whose request was pending got the read error from
\* its promise.
C11_Witness ==
    /\ r_pc = "done" /\ r_err = ErrRead /\ t_cause = ErrRead /\ b_cancel
    /\ t_pending = <<>>
    /\ \E c \in Calls :
          /\ c_seq[c] # 0
          /\ c_promise[c] = [state |-> "rejected", value |-> NoValue,
                             err |-> ErrRead, re |-> NoCall]
          /\ c_pc[c] = "ret" /\ c_ret[c].err = ErrRead

\* C11 as stated: after the teardown the cause of the Transport's context is
\* the read error.
C11_CauseIsReadError == r_pc = "done" => t_cause = r_err

\* the steps of Send that handle a failed write, taken by call c: the
\* delete under the mutex, and the Reject after it
SendFailedStep(c) == c_pc[c] = "failed" /\ c_pc'[c] = "reject"
SendRejectStep(c) == c_pc[c] = "reject" /\ c_pc'[c] = "get"

\* C17 (as the code has it): when the write of a request fails, Send removes
\* the request's entry from the pending map and rejects its promise with the
\* write error; the future fails with the write error unless the teardown
\* of the Transport had rejected it before, and then it keeps the
\* Transport's cause.  No promise rejected with a write error is in the map.
C17_WriteFailure ==
    /\ [][\A c \in Calls : SendFailedStep(c) =>
              /\ c_seq[c] \notin DOMAIN t_pending'
              /\ \A k \in DOMAIN t_pending \ {c_seq[c]} :
                    k \in DOMAIN t_pending' /\ t_pending'[k] = t_pending[k]]_vars
    /\ [][\A c \in Calls : SendRejectStep(c) =>
              /\ c_seq[c] \notin DOMAIN t_pending
              /\ t_pending' = t_pending
              /\ IF c_promise[c].state = "pending"
                    THEN c_promise'[c] = [state |-> "rejected", value |-> NoValue,
                                          err |-> ErrWrite, re |-> NoCall]
                    ELSE /\ c_promise'[c] = c_promise[c]
                         /\ t_cause # Nil
                         /\ c_promise[c].state = "rejected"
                         /\ c_promise[c].err = t_cause]_vars
    /\ [](\A c \in Calls :
             (c_pc[c] \in {"get", "cancel", "ret"} /\ c_promise[c].err = ErrWrite)
                 => \A k \in DOMAIN t_pending : t_pending[k] # c)

\* C17 witness: a write failed while another request was pending; the
\* caller got the write error and only the other entry is in the map.
C17_Witness ==
    \E c, d \in Calls :
        /\ c # d
        /\ c_pc[c] = "ret" /\ c_ret[c].err = ErrWrite
        /\ c_seq[c] \notin DOMAIN t_pending
        /\ c_seq[d] \in DOMAIN t_pending /\ t_pending[c_seq[d]] = d
        /\ c_promise[d].state = "pending"

\* C17 as stated: the future of a failed write is rejected with the write
\* error.
C17_RejectedWithWriteError ==
    [][\A c \in Calls : SendRejectStep(c) => c_promise'[c].err = ErrWrite]_vars

\* C18: a response that carries an error is handed to the promise stored
\* under its id, which is the promise of the request it answers: that
\* promise is rejected with the error, no other promise and no other entry
\* of the map changes, the Transport's context stays as it is and the reader
\* goes on reading; a caller that gets the protocol error is that requester.
C18_ProtocolError ==
    /\ [][(r_pc = "settle" /\ r_frame.Error # Nil /\ r_pc' # r_pc) =>
              /\ r_frame.to = r_frame.re
              /\ c_seq[r_frame.to] = r_frame.ID
              /\ c_promise'[r_frame.to] = Rejected(c_promise[r_frame.to], ErrRPC, r_frame.re)
              /\ \A c \in Calls \ {r_frame.to} : c_promise'[c] = c_promise[c]
              /\ UNCHANGED <<t_cause, t_pending, c_ret, c_pc>>
              /\ r_pc' = "read"]_vars
    /\ [](\A c \in Calls :
             c_ret[c].err = ErrRPC =>
                 c_promise[c] = [state |-> "rejected", value |-> NoValue,
                                 err |-> ErrRPC, re |-> c])

\* C18 witness: of two outstanding requests one was answered with an error;
\* its caller got the error, the other is still pending and the Transport
\* is alive.
C18_Witness ==
    \E c, d \in Calls :
        /\ c # d
        /\ c_pc[c] = "ret" /\ c_ret[c].err = ErrRPC
        /\ c_pc[d] = "get" /\ c_promise[d].state = "pending"
        /\ c_seq[d] \in DOMAIN t_pending
        /\ t_cause = Nil /\ r_pc = "read"

(***************************************************************************)
(* Claims about the Session                                                *)
(***************************************************************************)

\* C9: a Session.Call begun when the session's context is canceled returns
\* the context's cause at once and sends nothing: it assigns no id, stores
\* no promise and writes no frame.
C9_CallAfterCancel ==
    /\ [][\A c \in SessionCalls :
             (c_pc[c] = "idle" /\ c_pc'[c] # "idle" /\ s_cause # Nil) =>
                 /\ c_pc'[c] = "ret"
                 /\ c_ret'[c] = [value |-> NoValue, err |-> s_cause]
                 /\ c_promise'[c] = NoPromise
                 /\ UNCHANGED <<t_seq, t_pending, t_wire, t_assigned>>]_vars
    /\ [](\A c \in SessionCalls :
             (c_pc[c] = "ret" /\ c_promise[c] = NoPromise) =>
                 /\ c_seq[c] = 0
                 /\ c_ret[c].err = s_cause
                 /\ \A f \in t_wire : f.call # c)

\* C9 witness: the session was detached, and a Call made after that
\* returned the detach error without a request.
C9_Witness ==
    \E c \in SessionCalls :
        /\ s_cause = ErrTargetDetached
        /\ c_pc[c] = "ret"
        /\ c_promise[c] = NoPromise
        /\ c_ret[c].err = ErrTargetDetached

\* Session.IsDone (l.89-96)
IsDone == s_cause # Nil

\* C14: once the session's context is canceled, IsDone stays true and the
\* cause stays the same, whatever happens afterwards.
C14_TerminatedAbsorbing ==
    [][IsDone => (IsDone' /\ s_cause' = s_cause)]_vars

\* C14 witness: the session was detached, the Transport was lost after
\* that, and the cause is still the detach error.
C14_Witness ==
    /\ h_pc = "done" /\ s_cause = ErrTargetDetached
    /\ r_pc = "done" /\ t_cause = ErrRead

\* C15: in the step that cancels the Transport's context every session that
\* is not terminated yet is terminated with the Transport's cause; so no
\* session is active on a lost Transport.
C15_TransportLossCascades ==
    /\ [][(t_cause = Nil /\ t_cause' # Nil) =>
              /\ s_cause' = (IF s_cause = Nil THEN t_cause' ELSE s_cause)
              /\ s2_cause' = (IF s2_cause = Nil THEN t_cause' ELSE s2_cause)]_vars
    /\ [](t_cause # Nil =>
             /\ IsDone /\ s_cause \in {t_cause, h_err}
             /\ s2_cause = t_cause)

\* C15 witness: the read failed while a Call was pending; the session's
\* cause is the read error and the Call returned it.
C15_Witness ==
    /\ t_cause = ErrRead /\ s_cause = ErrRead /\ s2_cause = ErrRead /\ h_err = Nil
    /\ \E c \in SessionCalls : c_pc[c] = "ret" /\ c_seq[c] # 0 /\ c_ret[c].err = ErrRead

\* the steps by which the session ends itself: the unsubscribe and the
\* cancel of its goroutine (l.155-156) and the broker's removal of its mailbox
SessionEnds ==
    \/ h_pc = "unsubscribe" /\ h_pc' = "cancel"
    \/ h_pc = "cancel" /\ h_pc' = "done"
    \/ channel \in Registered /\ channel \notin Registered'

\* C16: the cancellation of one session leaves the Transport and the
\* sibling session as they were: the steps that end the session change
\* neither the Transport's context, nor the sibling's context, its
\* registration, its mailbox or its callers' futures and pending entries;
\* and while the Transport is alive the sibling is active and registered
\* and none of its calls carries the ended session's cause.
C16_SiblingsUnaffected ==
    /\ [][SessionEnds =>
              /\ t_cause' = t_cause /\ s2_cause' = s2_cause
              /\ t_pending' = t_pending /\ c_promise' = c_promise
              /\ c_ret' = c_ret /\ b_cancel' = b_cancel /\ b_panic' = b_panic
              /\ (siblingChannel \in Registered <=> siblingChannel \in Registered')
              /\ m_closed'[siblingChannel] = m_closed[siblingChannel]
              /\ m_buf'[siblingChannel] = m_buf[siblingChannel]]_vars
    /\ []((IsDone /\ t_cause = Nil) =>
             /\ s2_cause = Nil
             /\ siblingChannel \in Registered
             /\ b_value[siblingChannel] = siblingID
             /\ ~m_closed[siblingChannel]
             /\ b_panic = Nil
             /\ \A c \in SiblingCalls :
                   /\ c_promise[c].err # s_cause
                   /\ c_ret[c] # NoGet => c_ret[c].err # s_cause)

\* C16 happens: the session is canceled for a detach and its mailbox removed
\* while the Transport is alive, the sibling registered and active, and a
\* call of the sibling pending in the map
C16_Witness ==
    /\ s_cause = ErrTargetDetached /\ h_pc = "done"
    /\ channel \notin Registered /\ m_closed[channel]
    /\ t_cause = Nil /\ s2_cause = Nil
    /\ siblingChannel \in Registered /\ ~m_closed[siblingChannel]
    /\ \E c \in SiblingCalls :
          /\ c_promise[c].state = "pending"
          /\ c_seq[c] \in DOMAIN t_pending

\* the frame events handle has processed for frame id, by position
SeenFor(id) == {i \in 1 .. Len(h_seen) : h_seen[i].Params.frameId = id}
\* the latest of them
LatestFor(id) ==
    h_seen[CHOOSE i \in SeenFor(id) : \A j \in SeenFor(id) : j <= i]

\* C30: whatever sequence of events handle has processed, a frame is in the
\* frame table exactly when the latest event processed for it is an
\* executionContextCreated, and the table then holds the unique id of that
\* event; a frame with no event, or with a frameDetached as the latest, is
\* absent.  evaluate on an absent frame returns
\* ErrExecutionContextDestroyed at once and sends nothing: no sequence id is
\* taken, no entry stored, no frame written; on a present frame it never
\* returns that error.
C30_FrameTable ==
    /\ [](\A id \in FrameIds :
             IF SeenFor(id) # {} /\ LatestFor(id).Method = createdMethod
               THEN /\ id \in DOMAIN h_frames
                    /\ h_frames[id] = LatestFor(id).Params.uniqueId
                    /\ executionContextID(id) = LatestFor(id).Params.uniqueId
               ELSE /\ id \notin DOMAIN h_frames
                    /\ executionContextID(id) = "")
    /\ [][\A c \in SessionCalls :
             (c_pc[c] = "idle" /\ c_pc'[c] # "idle") =>
                IF EvalFrame(c) \notin DOMAIN h_frames
                  THEN /\ c_pc'[c] = "ret"
                       /\ c_ret'[c].err = ErrExecutionContextDestroyed
                       /\ t_seq' = t_seq /\ t_pending' = t_pending
                       /\ t_wire' = t_wire /\ t_assigned' = t_assigned
                  ELSE c_ret'[c].err # ErrExecutionContextDestroyed]_vars
    /\ [](\A c \in SessionCalls :
             c_ret[c].err = ErrExecutionContextDestroyed =>
                /\ c_pc[c] = "ret" /\ c_seq[c] = NoCall
                /\ \A f \in t_wire : f.call # c)

\* C30 happens: handle has processed two contexts created for the main
\* frame, one after the other, and the table holds the second; an evaluate
\* in that frame, made before the first of them, has returned
\* ErrExecutionContextDestroyed
C30_Witness ==
    /\ c_pc[1] = "ret" /\ c_ret[1].err = ErrExecutionContextDestroyed
    /\ Len(h_seen) >= 2
    /\ h_seen[1].Method = createdMethod /\ h_seen[1].Params.frameId = targetID
    /\ h_seen[2].Method = createdMethod /\ h_seen[2].Params.frameId = targetID
    /\ h_seen[1].Params.uniqueId # h_seen[2].Params.uniqueId
    /\ h_frames[targetID] = h_seen[2].Params.uniqueId

\* the errors of the three terminal conditions of this session
OwnErrors == {ErrTargetDetached, ErrTargetDestroyed, TargetCrashedError(targetID)}

\* C31: a step of handle that takes a detached, destroyed or crashed event
\* naming another session or target leaves the goroutine in its loop and the
\* session's context as it was; the goroutine leaves the loop and the
\* context is canceled only with the error of an event that names this
\* session or this target; and while only foreign events have been taken, a
\* Call still goes on to send.
C31_OnlyOwnEvents ==
    /\ [][(/\ h_pc = "range" /\ m_buf[channel] # <<>>
           /\ m_buf'[channel] = Tail(m_buf[channel])
           /\ Head(m_buf[channel]) \in ForeignEvents) =>
              /\ h_pc' = "range" /\ h_err' = h_err /\ s_cause' = s_cause]_vars
    /\ [][(/\ h_pc = "range" /\ h_pc' # "range") =>
              /\ m_buf[channel] # <<>>
              /\ Head(m_buf[channel]) \in LifecycleEvents \ ForeignEvents
              /\ h_err' = HandleResult(Head(m_buf[channel]))]_vars
    /\ [](h_pc = "range" => (h_err = Nil /\ s_cause = Nil))
    /\ [](h_pc # "range" => h_err \in OwnErrors)
    /\ [](s_cause \in {Nil} \cup OwnErrors)
    /\ [][\A c \in SessionCalls :
             (h_pc = "range" /\ c_pc[c] = "idle" /\ c_pc'[c] # "idle") =>
                 c_pc'[c] = "send"]_vars

\* C31 happens: the remote side has sent its events, all of them foreign,
\* handle has taken them all, and the session is active: its goroutine is in
\* the loop, its context is live and a Call has gone on to send
C31_Witness ==
    /\ w_sent = MaxWaitEvents
    /\ b_publish = <<>> /\ m_buf[channel] = <<>>
    /\ h_pc = "range" /\ s_cause = Nil
    /\ \E c \in SessionCalls : c_pc[c] = "send"

\* C39: when NewSession has returned an error, the mailbox of the session is
\* neither waiting for registration nor registered with the broker, and no
\* goroutine of the session is in handle's loop.
C39_NoTraceOnError ==
    NewSessionFailed =>
        /\ \A i \in 1 .. Len(b_sub) : b_sub[i].sessionID # sessionID
        /\ \A ch \in Registered : b_value[ch] # sessionID
        /\ ~(HandleStarted /\ h_pc = "range")

\* the requests NetworkIdle has seen sent and not yet seen answered: a
\* requestWillBeSent it processed that no responseReceived or loadingFailed
\* for the same request id has followed
Outstanding ==
    {n_seen[i].id : i \in {k \in DOMAIN n_seen :
        /\ n_seen[k].Method = otherMethod
        /\ \A j \in DOMAIN n_seen :
              j > k => ~(n_seen[j].Method \in {responseMethod, failedMethod}
                            /\ n_seen[j].id = n_seen[k].id)}}

\* C40: when NetworkIdle has returned, it has returned nil or
\* ErrNetworkIdleReachedTimeout; nil only when every requestWillBeSent it
\* processed was followed by a responseReceived or loadingFailed for the
\* same request id, and only when the timer had not fired;
\* ErrNetworkIdleReachedTimeout only when the timer had fired; and its
\* unsubscribe function has been called exactly once.
C40_IdleReturns ==
    n_pc = "ret" =>
        /\ n_ret \in {Nil, ErrNetworkIdleReachedTimeout}
        /\ n_ret = Nil => Outstanding = {} /\ ~n_timer
        /\ n_ret = ErrNetworkIdleReachedTimeout => n_timer
        /\ n_unsubs = 1

\* C40 happens: NetworkIdle has returned nil after it processed a
\* requestWillBeSent and then the responseReceived or loadingFailed of the
\* same request.
C40_Witness ==
    /\ n_pc = "ret" /\ n_ret = Nil
    /\ Len(n_seen) = 2
    /\ n_seen[1].Method = otherMethod
    /\ n_seen[2].Method \in {responseMethod, failedMethod}
    /\ n_seen[2].id = n_seen[1].id

\* C25: when the response of a call has settled the call's promise by the
\* time Get's select runs, Get returns the outcome the response settled it
\* with, also when the deadline has elapsed or the session's context is done.
C25_SettledOutcomeWins ==
    [][\A c \in SessionCalls :
         (/\ c_pc[c] = "get" /\ c_pc'[c] # "get"
          /\ (c_promise[c].state = "resolved" \/ c_promise[c].err = ErrRPC)) =>
             c_ret'[c] = [value |-> c_promise[c].value, err |-> c_promise[c].err]]_vars

\* C10: once the session's goroutine has handled a detached, destroyed or
\* crashed event that names this session or target and has canceled, the
\* cause of the session's context is the error of that event.
C10_LifecycleCause == h_pc = "done" => s_cause = h_err

InitBroker == PInit /\ BInit /\ TInit /\ SInit /\ WInit

SpecBroker == InitBroker /\ [][BNext]_vars
SpecOrder == InitBroker /\ [][OrderNext]_vars
SpecRegister == InitBroker /\ [][RegisterNext]_vars

(***************************************************************************)
(* Claims about the broker                                                 *)
(***************************************************************************)
\* the step in which run takes a message from b.publish and fans it out
FanOutStep == b_publish # <<>> /\ b_publish' = Tail(b_publish)

\* C5: when run fans a message out, every registered open mailbox gets the
\* message if and only if the message's session id is empty, or the
\* mailbox's identity is empty, or the two are equal, and the mailbox is not
\* full; no other mailbox gets anything.
C5_FanOutRule ==
    [][FanOutStep =>
          \A ch \in Mailboxes :
              m_buf'[ch] =
                  IF /\ ch \in Registered
                     /\ ~m_closed[ch]
                     /\ Matches(Head(b_publish), b_value[ch])
                     /\ Len(m_buf[ch]) < BrokerChannelSize
                    THEN Append(m_buf[ch], Head(b_publish))
                    ELSE m_buf[ch]]_vars

\* C6: a message published after a mailbox was unsubscribed is never sent
\* to that mailbox, so no fan-out fails because of it: run never panics
\* with a send on a closed mailbox.
C6_PublishNeverCrashes == b_panic # PanicRunSend

\* C7: run never waits on a full mailbox (its publish case can always be
\* taken), and a fan-out that meets a full matching mailbox leaves that
\* mailbox as it is and still puts the message into every other matching
\* open mailbox that has room.
C7_FullMailboxDropped ==
    [][/\ (Alive /\ b_state = "running" /\ b_publish # <<>>) => ENABLED RunPublish
       /\ (/\ FanOutStep
           /\ \E full \in Targets(Head(b_publish)) :
                 ~m_closed[full] /\ Len(m_buf[full]) = BrokerChannelSize)
          => \A ch \in Targets(Head(b_publish)) :
                ~m_closed[ch] =>
                    m_buf'[ch] =
                        IF Len(m_buf[ch]) = BrokerChannelSize
                          THEN m_buf[ch]
                          ELSE Append(m_buf[ch], Head(b_publish))]_vars

\* C8: once run has taken its cancel case, every mailbox of the registry is
\* closed (a reader of it gets end-of-stream once its buffer is drained).
C8_ShutdownClosesAll ==
    (b_cancel /\ (b_state = "exited" \/ b_panic = PanicRunCloseCancel))
        => \A ch \in Registered : m_closed[ch]

\* C33: an unsubscribe callback returns when it is invoked: its send on
\* b.unsub finds room in the channel's buffer, or the broker's loop is still
\* running and will make room; in particular after the loop has exited.
C33_UnsubscribeReturns ==
    Alive => (Len(b_unsub) < UnsubCap \/ b_state = "running")

\* C36: every message is published after every Subscribe has returned; so
\* when run fans a message out, it reaches every matching mailbox that is
\* not full, also the mailbox of a subscription that run has not taken from
\* b.sub yet.
C36_RegisteredBeforePublish ==
    [][FanOutStep =>
          \A i \in 1 .. Len(b_sub) :
              (/\ Matches(Head(b_publish), b_sub[i].sessionID)
               /\ Len(m_buf[b_sub[i].channel]) < BrokerChannelSize) =>
                  m_buf'[b_sub[i].channel] =
                      Append(m_buf[b_sub[i].channel], Head(b_publish))]_vars

\* C37: when run takes a mailbox from b.unsub that is not in the registry
\* (never registered, or unsubscribed before), the broker keeps running, the
\* registry stays as it is and a closed mailbox is not closed again.
C37_UnsubscribeAnyMailbox ==
    [][(/\ Alive /\ b_unsub # <<>> /\ b_unsub' = Tail(b_unsub)
        /\ Head(b_unsub) \notin Registered) =>
           /\ b_panic' = Nil /\ b_state' = b_state
           /\ b_value' = b_value /\ m_closed' = m_closed]_vars

\* C28: the messages are numbered in the order in which they were handed to
\* Publish.  Every mailbox holds its messages in that order, and everything
\* still queued for the fan-out is later than everything in a mailbox; so
\* the message a subscriber takes, the head of its mailbox, is earlier than
\* every message it can take afterwards.
C28_DeliveryOrder ==
    /\ [](\A i, j \in 1 .. Len(b_publish) : i < j => b_publish[i].n < b_publish[j].n)
    /\ [](\A ch \in Mailboxes :
            /\ \A i, j \in 1 .. Len(m_buf[ch]) :
                   i < j => m_buf[ch][i].n < m_buf[ch][j].n
            /\ \A i \in 1 .. Len(m_buf[ch]), k \in 1 .. Len(b_publish) :
                   m_buf[ch][i].n < b_publish[k].n
            /\ \A i \in 1 .. Len(m_buf[ch]) : m_buf[ch][i].n <= b_calls.publish)
    /\ [][\A ch \in Mailboxes :
            Len(m_buf'[ch]) < Len(m_buf[ch]) => m_buf'[ch] = Tail(m_buf[ch])]_vars

\* C28 happens: a mailbox holds the first and the third message, in this
\* order, the second one having gone to other subscribers only
C28_Witness ==
    \E ch \in Registered :
        /\ Len(m_buf[ch]) = 2
        /\ m_buf[ch][1].n = 1 /\ m_buf[ch][2].n = 3

InitPromise == PInit /\ BInit /\ TInit /\ SInit /\ WInit

SpecPromise == InitPromise /\ [][PNext]_vars

(***************************************************************************)
(* Claims about the promise                                                *)
(***************************************************************************)

\* C3: a promise is settled at most once.  Once the first Resolve or Reject
\* has taken effect (the fulfilled channel is closed), no later Resolve,
\* Reject or Cancel changes the stored value or error, and every Get that
\* returned through the fulfilled case returned that stored outcome.
C3_SettledAtMostOnce ==
    /\ [][p_fulfilled => (p_value' = p_value /\ p_err' = p_err)]_vars
    /\ [](\A t \in PThreads :
            p_ret[t].via = "fulfilled" =>
                (p_ret[t].value = p_value /\ p_ret[t].err = p_err))

\* C3 witness: a Resolve won, a racing Reject and a Cancel have returned
\* without effect, and a Get has returned the resolved value.
C3_Witness ==
    /\ p_value # NoValue
    /\ p_err = Nil
    /\ \E t \in PThreads : p_op[t].kind = "Reject" /\ p_pc[t] = "ret"
    /\ \E t \in PThreads :
          /\ p_op[t].kind = "Get"
          /\ p_pc[t] = "ret"
          /\ p_ret[t].via = "fulfilled"
          /\ p_ret[t].value = p_value

\* C23: Get waits at its select as long as the promise is unsettled and its
\* context is not done, and can return as soon as one of them happens.  It
\* returns either the settled value and error of the promise, or, with a
\* context that is done, the cause of that context: deadline exceeded or
\* canceled.  A Cancel that takes effect stores the canceled error and no
\* value, as a Reject with that error does.
C23_GetOutcomes ==
    /\ [](\A t \in PThreads :
            p_pc[t] = "select" =>
                (ENABLED GetSelect(t) <=> (p_fulfilled \/ p_ctx[t] # Nil)))
    /\ [][\A t \in PThreads :
            (p_pc[t] = "select" /\ p_pc'[t] # "select") =>
                \/ /\ p_fulfilled
                   /\ p_ret'[t] = [via |-> "fulfilled", value |-> p_value,
                                   err |-> p_err]
                \/ /\ p_ctx[t] \in CtxCauses
                   /\ p_ret'[t].via = "parent"
                   /\ p_ret'[t].err = p_ctx[t]]_vars
    /\ [][\A t \in PThreads :
            (p_op[t].kind = "Cancel" /\ p_pc[t] = "set" /\ p_pc'[t] # "set") =>
                (p_err' = ErrPromiseCanceled /\ p_value' = p_value)]_vars

\* C23 happens: one Get has returned the deadline error of its context,
\* another the canceled error the promise was settled with, and a Cancel
\* has returned
C23_Witness ==
    /\ \E t \in PThreads :
          p_ret[t] = [via |-> "parent", value |-> NoValue,
                      err |-> "context deadline exceeded"]
    /\ \E t \in PThreads :
          p_ret[t] = [via |-> "fulfilled", value |-> NoValue,
                      err |-> ErrPromiseCanceled]
    /\ \E t \in PThreads : p_op[t].kind = "Cancel" /\ p_pc[t] = "ret"

\* C4: the release hook is never invoked twice, and whenever any Resolve,
\* Reject, Cancel or Get call has returned it has been invoked exactly once.
C4_HookExactlyOnce ==
    /\ p_onClose <= 1
    /\ \A t \in PThreads : p_pc[t] = "ret" => p_onClose = 1

\* C4 witness: a Get returned because its context was done (deadline or
\* cancellation), and another call on the same promise has returned too.
C4_Witness ==
    /\ p_onClose = 1
    /\ \E t \in PThreads :
          /\ p_op[t].kind = "Get"
          /\ p_pc[t] = "ret"
          /\ p_ret[t].via = "parent"
    /\ \E t \in PThreads : p_op[t].kind = "Resolve" /\ p_pc[t] = "ret"

============================================================================
